---- MODULE Spec2Model ----
(***************************************************************************)
(* A model of the s16vm 16-bit virtual machine: the Word codec             *)
(* (cpu/instructions/word.rs), the instruction decoder                     *)
(* (cpu/instructions.rs), the memory (cpu/memory.rs) and the execution     *)
(* engine (cpu.rs).                                                        *)
(***************************************************************************)
EXTENDS Integers, Sequences, FiniteSets, TLC

VARIABLES
    registers,      \* CPU.registers: [u16; 8]
    pc,             \* CPU.pc
    sp,             \* CPU.sp
    flags,          \* CPU.flags: zero, negative, carry, overflow
    memory,         \* CPU.memory.data, kept as the map of its non-zero bytes
    halted,         \* CPU.halted
    program_start,  \* CPU.program_start
    program_end,    \* CPU.program_end
    panicked,       \* the process has aborted on an arithmetic-overflow panic
    loads,          \* number of load_program calls made so far
    ret,            \* what the last call returned, and what it fetched
    run,            \* the position of a run() call in its loop
    codec,          \* the Word codec scenario: input, intermediate and output
    mcall,          \* the Memory scenario: arguments, position and results
    history         \* the calls of a traced scenario: the CPU each found

vars == << registers, pc, sp, flags, memory, halted, program_start,
           program_end, panicked, loads, ret, run, codec, mcall, history >>

cpuvars == << registers, pc, sp, flags, memory, halted, program_start,
              program_end, panicked, loads, ret, run, history >>

(***************************************************************************)
(* 16-bit and 8-bit machine arithmetic                                     *)
(***************************************************************************)
U16 == 65536

U8 == 256

RECURSIVE BitAnd(_, _)
BitAnd(a, b) ==
    IF a = 0 \/ b = 0 THEN 0
    ELSE (a % 2) * (b % 2) + 2 * BitAnd(a \div 2, b \div 2)

RECURSIVE BitOr(_, _)
BitOr(a, b) ==
    IF a = 0 THEN b
    ELSE IF b = 0 THEN a
    ELSE (IF a % 2 = 1 \/ b % 2 = 1 THEN 1 ELSE 0) + 2 * BitOr(a \div 2, b \div 2)

RECURSIVE BitXor(_, _)
BitXor(a, b) ==
    IF a = 0 THEN b
    ELSE IF b = 0 THEN a
    ELSE ((a + b) % 2) + 2 * BitXor(a \div 2, b \div 2)

\* !a on u16
BitNot(a) == (U16 - 1) - a

\* a << n on u16 (n < 16): the bits shifted past bit 15 are lost
Shl(a, n) == (a * (2 ^ n)) % U16

\* a >> n on u16 (n < 16)
Shr(a, n) == a \div (2 ^ n)

\* `x as u8`
AsU8(x) == x % U8

(***************************************************************************)
(* cpu/instructions/word.rs: the bit layout                                *)
(***************************************************************************)
OPCODE_SHIFT == 12

SUBCODE_SHIFT == 8

SUB_RS_SHIFT == 5

SUB_RT_SHIFT == 2

RD_SHIFT == 9

RS_SHIFT == 6

RT_SHIFT == 3

OPCODE_MASK == \hF000

RD_MASK == \h0E00

RS_MASK == \h01C0

RT_MASK == \h0038

FUNCT_MASK == \h0007

IMMEDIATE_MASK == \h00FF

OFFSET_MASK == \h0FFF

SUBCODE_MASK == \h0F00

SUB_RS_MASK == \h00E0

SUB_RT_MASK == \h001C

RType(opcode, rd, rs, rt, funct) ==
    [type |-> "RType", opcode |-> opcode, rd |-> rd, rs |-> rs, rt |-> rt,
     funct |-> funct]

IType(opcode, rt, imm) ==
    [type |-> "IType", opcode |-> opcode, rt |-> rt, imm |-> imm]

JType(opcode, offset) ==
    [type |-> "JType", opcode |-> opcode, offset |-> offset]

EType(subcode, rs, rt) ==
    [type |-> "EType", subcode |-> subcode, rs |-> rs, rt |-> rt]

\* Word::new with the I-type register taken from the rt field of the R-type
\* layout (RT_MASK, RT_SHIFT) instead of bits 9-11
WordNew_WrongITypeRt(bits) ==
    LET opcode == AsU8(Shr(BitAnd(bits, OPCODE_MASK), OPCODE_SHIFT))
    IN  IF opcode \in 0..1 THEN
            RType(opcode,
                  AsU8(Shr(BitAnd(bits, RD_MASK), RD_SHIFT)),
                  AsU8(Shr(BitAnd(bits, RS_MASK), RS_SHIFT)),
                  AsU8(Shr(BitAnd(bits, RT_MASK), RT_SHIFT)),
                  AsU8(BitAnd(bits, FUNCT_MASK)))
        ELSE IF opcode \in 2..8 THEN
            IType(opcode,
                  AsU8(Shr(BitAnd(bits, RT_MASK), RT_SHIFT)),
                  AsU8(BitAnd(bits, IMMEDIATE_MASK)))
        ELSE IF opcode \in 9..13 THEN
            JType(opcode, BitAnd(bits, OFFSET_MASK))
        ELSE IF opcode = 15 THEN
            EType(AsU8(Shr(BitAnd(bits, SUBCODE_MASK), SUBCODE_SHIFT)),
                  AsU8(Shr(BitAnd(bits, SUB_RS_MASK), SUB_RS_SHIFT)),
                  AsU8(Shr(BitAnd(bits, SUB_RT_MASK), SUB_RT_SHIFT)))
        ELSE
            RType(0, 0, 0, 0, 0)

\* Word::new
WordNew(bits) ==
    LET opcode == AsU8(Shr(BitAnd(bits, OPCODE_MASK), OPCODE_SHIFT))
    IN  IF opcode \in 0..1 THEN
            RType(opcode,
                  AsU8(Shr(BitAnd(bits, RD_MASK), RD_SHIFT)),
                  AsU8(Shr(BitAnd(bits, RS_MASK), RS_SHIFT)),
                  AsU8(Shr(BitAnd(bits, RT_MASK), RT_SHIFT)),
                  AsU8(BitAnd(bits, FUNCT_MASK)))
        ELSE IF opcode \in 2..8 THEN
            IType(opcode,
                  AsU8(Shr(BitAnd(bits, RD_MASK), RD_SHIFT)),
                  AsU8(BitAnd(bits, IMMEDIATE_MASK)))
        ELSE IF opcode \in 9..13 THEN
            JType(opcode, BitAnd(bits, OFFSET_MASK))
        ELSE IF opcode = 15 THEN
            EType(AsU8(Shr(BitAnd(bits, SUBCODE_MASK), SUBCODE_SHIFT)),
                  AsU8(Shr(BitAnd(bits, SUB_RS_MASK), SUB_RS_SHIFT)),
                  AsU8(Shr(BitAnd(bits, SUB_RT_MASK), SUB_RT_SHIFT)))
        ELSE
            RType(0, 0, 0, 0, 0)

\* Word::to_bits, the R-type arm
ToBitsR(w) ==
    BitOr(BitOr(BitOr(BitOr(Shl(w.opcode, OPCODE_SHIFT),
                            Shl(w.rd, RD_SHIFT)),
                      Shl(w.rs, RS_SHIFT)),
                Shl(w.rt, RT_SHIFT)),
          w.funct)

\* Word::to_bits, the I-type arm
ToBitsI(w) ==
    BitOr(BitOr(Shl(w.opcode, OPCODE_SHIFT), Shl(w.rt, RD_SHIFT)), w.imm)

\* Word::to_bits, the J-type arm
ToBitsJ(w) ==
    BitOr(Shl(w.opcode, OPCODE_SHIFT), w.offset)

\* the E-type arm with rs and rt shifted as in the R-type layout
ToBitsE_RTypeShifts(w) ==
    BitOr(BitOr(BitOr(Shl(15, OPCODE_SHIFT), Shl(w.subcode, SUBCODE_SHIFT)),
                Shl(w.rs, RS_SHIFT)),
          Shl(w.rt, RT_SHIFT))

\* Word::to_bits, the E-type arm
ToBitsE(w) ==
    BitOr(BitOr(BitOr(Shl(15, OPCODE_SHIFT), Shl(w.subcode, SUBCODE_SHIFT)),
                Shl(w.rs, SUB_RS_SHIFT)),
          Shl(w.rt, SUB_RT_SHIFT))

\* Word::to_bits
ToBits(w) ==
    CASE w.type = "RType" -> ToBitsR(w)
      [] w.type = "IType" -> ToBitsI(w)
      [] w.type = "JType" -> ToBitsJ(w)
      [] w.type = "EType" -> ToBitsE(w)

(***************************************************************************)
(* cpu/memory.rs                                                           *)
(***************************************************************************)
MEMORY_SIZE == \h10000

\* Memory::default: every byte is 0, so no byte is recorded
MemoryDefault == << >>

\* self.data[addr]
ReadByte(m, addr) == IF addr \in DOMAIN m THEN m[addr] ELSE 0

\* self.data[addr] = byte
StoreByte(m, addr, byte) ==
    IF byte = 0
    THEN [x \in (DOMAIN m) \ {addr} |-> m[x]]
    ELSE [x \in (DOMAIN m) \cup {addr} |-> IF x = addr THEN byte ELSE m[x]]

OutOfBounds(address) == [kind |-> "OutOfBounds", addr |-> address]

\* read_word that takes the byte at the lower address as the high byte
ReadWord_BigEndian(m, address) ==
    IF address >= MEMORY_SIZE - 1
    THEN [ok |-> FALSE, err |-> OutOfBounds(address), val |-> 0]
    ELSE LET high == ReadByte(m, address)
             low  == ReadByte(m, address + 1)
         IN  [ok |-> TRUE, err |-> OutOfBounds(address),
              val |-> BitOr(Shl(high, 8), low)]

\* Memory::read_word
ReadWord(m, address) ==
    IF address >= MEMORY_SIZE - 1
    THEN [ok |-> FALSE, err |-> OutOfBounds(address), val |-> 0]
    ELSE LET low  == ReadByte(m, address)
             high == ReadByte(m, address + 1)
         IN  [ok |-> TRUE, err |-> OutOfBounds(address),
              val |-> BitOr(Shl(high, 8), low)]

\* write_word with the bound of write_byte: at 0xFFFF it stores the low byte
WriteWord_BoundOfByte(m, address, value) ==
    IF address >= MEMORY_SIZE
    THEN [ok |-> FALSE, err |-> OutOfBounds(address), mem |-> m]
    ELSE LET low  == AsU8(BitAnd(value, \h00FF))
             high == AsU8(Shr(value, 8))
         IN  [ok |-> TRUE, err |-> OutOfBounds(address),
              mem |-> IF address + 1 < MEMORY_SIZE
                      THEN StoreByte(StoreByte(m, address, low), address + 1, high)
                      ELSE StoreByte(m, address, low)]

\* Memory::write_word
WriteWord(m, address, value) ==
    IF address >= MEMORY_SIZE - 1
    THEN [ok |-> FALSE, err |-> OutOfBounds(address), mem |-> m]
    ELSE LET low  == AsU8(BitAnd(value, \h00FF))
             high == AsU8(Shr(value, 8))
         IN  [ok |-> TRUE, err |-> OutOfBounds(address),
              mem |-> StoreByte(StoreByte(m, address, low), address + 1, high)]

\* Memory::write_byte
WriteByte(m, address, byte) ==
    IF address >= MEMORY_SIZE
    THEN [ok |-> FALSE, err |-> OutOfBounds(address), mem |-> m]
    ELSE [ok |-> TRUE, err |-> OutOfBounds(address),
          mem |-> StoreByte(m, address, byte)]

\* Memory::get_range: `end` is computed in u32, `start + length` in u16 (it
\* cannot overflow where it is computed, end being at most 0xFFFF there)
GetRange(m, start, length) ==
    LET end == start + length
    IN  IF end > \hFFFF THEN << >>
        ELSE LET end_idx == (start + length) % U16
             IN  [i \in 1..(end_idx - start) |-> ReadByte(m, start + (i - 1))]

(***************************************************************************)
(* cpu/instructions.rs: registers and the instruction decoder              *)
(***************************************************************************)
GeneralRegisters == << "R0", "R1", "R2", "R3", "R4", "R5", "R6", "R7" >>

\* `reg as usize` / `reg as u16` of a general register
RegIdx(reg) == CHOOSE i \in 0..7 : GeneralRegisters[i + 1] = reg

\* Register::new
RegisterNew(id) ==
    IF id \in 0..7
    THEN [ok |-> TRUE, reg |-> GeneralRegisters[id + 1]]
    ELSE [ok |-> FALSE, reg |-> "R0"]

\* `imm as i8`
AsI8(x) == IF x % U8 >= 128 THEN (x % U8) - U8 ELSE x % U8

\* `x as u16` of a signed value
AsU16(x) == x % U16

\* `x as i16`
AsI16(x) == IF x % U16 >= 32768 THEN (x % U16) - U16 ELSE x % U16

DecodeOk(ins) == [ok |-> TRUE, ins |-> ins, err |-> [kind |-> "None"]]

DecodeErr(e) == [ok |-> FALSE, ins |-> [op |-> "None"], err |-> e]

InvalidRegister(id) == [kind |-> "InvalidRegister", id |-> id]

InvalidSpecialRegister(id) == [kind |-> "InvalidSpecialRegister", id |-> id]

\* the match on (opcode, funct) of an R-type word
DecodeRTable(opcode, funct, rd, rs, rt) ==
    CASE opcode = 0 /\ funct = 0 -> DecodeOk([op |-> "Add", rd |-> rd, rs |-> rs, rt |-> rt])
      [] opcode = 0 /\ funct = 1 -> DecodeOk([op |-> "Sub", rd |-> rd, rs |-> rs, rt |-> rt])
      [] opcode = 0 /\ funct = 2 -> DecodeOk([op |-> "And", rd |-> rd, rs |-> rs, rt |-> rt])
      [] opcode = 0 /\ funct = 3 -> DecodeOk([op |-> "Or", rd |-> rd, rs |-> rs, rt |-> rt])
      [] opcode = 0 /\ funct = 4 -> DecodeOk([op |-> "Xor", rd |-> rd, rs |-> rs, rt |-> rt])
      [] opcode = 0 /\ funct = 5 -> DecodeOk([op |-> "Not", rd |-> rd, rt |-> rt])
      [] opcode = 0 /\ funct = 6 -> DecodeOk([op |-> "Sll", rd |-> rd, rs |-> rs, rt |-> rt])
      [] opcode = 0 /\ funct = 7 -> DecodeOk([op |-> "Shr", rd |-> rd, rs |-> rs, rt |-> rt])
      [] opcode = 1 /\ funct = 0 -> DecodeOk([op |-> "LoadIndirect", rd |-> rd, rs |-> rs])
      [] opcode = 1 /\ funct = 1 -> DecodeOk([op |-> "StoreIndirect", rd |-> rd, rs |-> rs])
      [] opcode = 1 /\ funct = 2 -> DecodeOk([op |-> "Cmp", rs |-> rs, rt |-> rt])
      [] opcode = 1 /\ funct = 3 -> DecodeOk([op |-> "Return"])
      [] opcode = 1 /\ funct = 4 -> DecodeOk([op |-> "Push", rs |-> rs])
      [] opcode = 1 /\ funct = 5 -> DecodeOk([op |-> "Pop", rd |-> rd])
      [] OTHER -> DecodeErr([kind |-> "InvalidRType", opcode |-> opcode, funct |-> funct])

\* Instruction::decode, the Word::RType arm
DecodeR(w) ==
    LET rd == RegisterNew(w.rd)
        rs == RegisterNew(w.rs)
        rt == RegisterNew(w.rt)
    IN  IF ~rd.ok THEN DecodeErr(InvalidRegister(w.rd))
        ELSE IF ~rs.ok THEN DecodeErr(InvalidRegister(w.rs))
        ELSE IF ~rt.ok THEN DecodeErr(InvalidRegister(w.rt))
        ELSE DecodeRTable(w.opcode, w.funct, rd.reg, rs.reg, rt.reg)

\* Instruction::decode, the Word::IType arm
DecodeI(w) ==
    LET rt == RegisterNew(w.rt)
    IN  IF ~rt.ok THEN DecodeErr(InvalidRegister(w.rt))
        ELSE CASE w.opcode = 2 -> DecodeOk([op |-> "Load", rt |-> rt.reg, addr |-> w.imm])
               [] w.opcode = 3 -> DecodeOk([op |-> "Store", rt |-> rt.reg, addr |-> w.imm])
               [] w.opcode = 4 -> DecodeOk([op |-> "AddImmediate", rt |-> rt.reg, imm |-> AsI8(w.imm)])
               [] w.opcode = 5 -> DecodeOk([op |-> "AndImmediate", rt |-> rt.reg, imm |-> w.imm])
               [] w.opcode = 6 -> DecodeOk([op |-> "OrImmediate", rt |-> rt.reg, imm |-> w.imm])
               [] w.opcode = 7 -> DecodeOk([op |-> "LoadUperImmediate", rt |-> rt.reg, imm |-> w.imm])
               [] w.opcode = 8 -> DecodeOk([op |-> "CmpImmediate", rt |-> rt.reg, imm |-> AsI8(w.imm)])
               [] OTHER -> DecodeErr([kind |-> "InvalidIType", opcode |-> w.opcode])

\* Instruction::decode, the Word::JType arm
DecodeJ(w) ==
    CASE w.opcode = 9  -> DecodeOk([op |-> "Jump", jump_type |-> "Call", offset |-> w.offset])
      [] w.opcode = 10 -> DecodeOk([op |-> "Jump", jump_type |-> "Unconditional", offset |-> w.offset])
      [] w.opcode = 11 -> DecodeOk([op |-> "Jump", jump_type |-> "Zero", offset |-> w.offset])
      [] w.opcode = 12 -> DecodeOk([op |-> "Jump", jump_type |-> "NotZero", offset |-> w.offset])
      [] w.opcode = 13 -> DecodeOk([op |-> "Jump", jump_type |-> "GreaterThan", offset |-> w.offset])
      [] OTHER -> DecodeErr([kind |-> "InvalidJType", opcode |-> w.opcode])

\* the special-register selector match of the MOVS arms
SpecialOf(sel) ==
    CASE sel = 0 -> [ok |-> TRUE, reg |-> "PC"]
      [] sel = 1 -> [ok |-> TRUE, reg |-> "SP"]
      [] sel = 2 -> [ok |-> TRUE, reg |-> "FLAGS"]
      [] OTHER   -> [ok |-> FALSE, reg |-> "PC"]

\* the Word::EType arm without the 0xE subcode: SYSALL is no instruction
DecodeE_NoSysall(w) ==
    CASE w.subcode = 0  -> DecodeOk([op |-> "Nop"])
      [] w.subcode = 15 -> DecodeOk([op |-> "Halt"])
      [] w.subcode = 1  ->
            LET spec == SpecialOf(w.rt)
                rt   == RegisterNew(w.rs)
            IN  IF ~spec.ok THEN DecodeErr(InvalidSpecialRegister(w.rt))
                ELSE IF ~rt.ok THEN DecodeErr(InvalidRegister(w.rs))
                ELSE DecodeOk([op |-> "MoveFromSpecial", rt |-> rt.reg, spec |-> spec.reg])
      [] w.subcode = 2  ->
            LET rt   == RegisterNew(w.rt)
                spec == SpecialOf(w.rs)
            IN  IF ~rt.ok THEN DecodeErr(InvalidRegister(w.rt))
                ELSE IF ~spec.ok THEN DecodeErr(InvalidSpecialRegister(w.rs))
                ELSE DecodeOk([op |-> "MoveFromToSpecial", rt |-> rt.reg, spec |-> spec.reg])
      [] OTHER -> DecodeErr([kind |-> "InvalidEType", subcode |-> w.subcode])

\* the Word::EType arm whose subcode 0x1 reads its fields as subcode 0x2 does
DecodeE_SelectorFromRs(w) ==
    CASE w.subcode = 0  -> DecodeOk([op |-> "Nop"])
      [] w.subcode = 14 -> DecodeOk([op |-> "Sysall"])
      [] w.subcode = 15 -> DecodeOk([op |-> "Halt"])
      [] w.subcode = 1  ->
            LET spec == SpecialOf(w.rs)
                rt   == RegisterNew(w.rt)
            IN  IF ~spec.ok THEN DecodeErr(InvalidSpecialRegister(w.rs))
                ELSE IF ~rt.ok THEN DecodeErr(InvalidRegister(w.rt))
                ELSE DecodeOk([op |-> "MoveFromSpecial", rt |-> rt.reg, spec |-> spec.reg])
      [] w.subcode = 2  ->
            LET rt   == RegisterNew(w.rt)
                spec == SpecialOf(w.rs)
            IN  IF ~rt.ok THEN DecodeErr(InvalidRegister(w.rt))
                ELSE IF ~spec.ok THEN DecodeErr(InvalidSpecialRegister(w.rs))
                ELSE DecodeOk([op |-> "MoveFromToSpecial", rt |-> rt.reg, spec |-> spec.reg])
      [] OTHER -> DecodeErr([kind |-> "InvalidEType", subcode |-> w.subcode])

\* Instruction::decode, the Word::EType arm
DecodeE(w) ==
    CASE w.subcode = 0  -> DecodeOk([op |-> "Nop"])
      [] w.subcode = 14 -> DecodeOk([op |-> "Sysall"])
      [] w.subcode = 15 -> DecodeOk([op |-> "Halt"])
      [] w.subcode = 1  ->
            LET spec == SpecialOf(w.rt)
                rt   == RegisterNew(w.rs)
            IN  IF ~spec.ok THEN DecodeErr(InvalidSpecialRegister(w.rt))
                ELSE IF ~rt.ok THEN DecodeErr(InvalidRegister(w.rs))
                ELSE DecodeOk([op |-> "MoveFromSpecial", rt |-> rt.reg, spec |-> spec.reg])
      [] w.subcode = 2  ->
            LET rt   == RegisterNew(w.rt)
                spec == SpecialOf(w.rs)
            IN  IF ~rt.ok THEN DecodeErr(InvalidRegister(w.rt))
                ELSE IF ~spec.ok THEN DecodeErr(InvalidSpecialRegister(w.rs))
                ELSE DecodeOk([op |-> "MoveFromToSpecial", rt |-> rt.reg, spec |-> spec.reg])
      [] OTHER -> DecodeErr([kind |-> "InvalidEType", subcode |-> w.subcode])

\* Instruction::decode
Decode(w) ==
    CASE w.type = "RType" -> DecodeR(w)
      [] w.type = "IType" -> DecodeI(w)
      [] w.type = "JType" -> DecodeJ(w)
      [] w.type = "EType" -> DecodeE(w)

(***************************************************************************)
(* cpu.rs: the register file and the flags.  A CPU value c is the record   *)
(* of the fields of struct CPU.                                            *)
(***************************************************************************)
BoolBit(b) == IF b THEN 1 ELSE 0

\* as_u16 with Negative at bit 1 and Carry at bit 2
FlagsAsU16_NegativeBit1(f) ==
    BitOr(BitOr(BitOr(Shl(BoolBit(f.zero), 0), Shl(BoolBit(f.negative), 1)),
                Shl(BoolBit(f.carry), 2)),
          Shl(BoolBit(f.overflow), 3))

\* Flags::as_u16
FlagsAsU16(f) ==
    BitOr(BitOr(BitOr(Shl(BoolBit(f.zero), 0), Shl(BoolBit(f.carry), 1)),
                Shl(BoolBit(f.negative), 2)),
          Shl(BoolBit(f.overflow), 3))

\* Flags::from_u16
FlagsFromU16(value) ==
    [zero     |-> BitAnd(value, 1) # 0,
     carry    |-> BitAnd(value, 2) # 0,
     negative |-> BitAnd(value, 4) # 0,
     overflow |-> BitAnd(value, 8) # 0]

\* CPU::get_register
GetRegister(c, reg) ==
    CASE reg = "R0"    -> 0
      [] reg = "SP"    -> c.sp
      [] reg = "PC"    -> c.pc
      [] reg = "FLAGS" -> FlagsAsU16(c.flags)
      [] OTHER         -> c.registers[RegIdx(reg)]

\* set_register without the R0 arm: R0 is written like any general register
SetRegister_WritesR0(c, reg, val) ==
    CASE reg = "SP"    -> [c EXCEPT !.sp = val]
      [] reg = "PC"    -> [c EXCEPT !.pc = val]
      [] reg = "FLAGS" -> [c EXCEPT !.flags = FlagsFromU16(val)]
      [] OTHER         -> [c EXCEPT !.registers[RegIdx(reg)] = val]

\* CPU::set_register
SetRegister(c, reg, val) ==
    CASE reg = "R0"    -> c
      [] reg = "SP"    -> [c EXCEPT !.sp = val]
      [] reg = "PC"    -> [c EXCEPT !.pc = val]
      [] reg = "FLAGS" -> [c EXCEPT !.flags = FlagsFromU16(val)]
      [] OTHER         -> [c EXCEPT !.registers[RegIdx(reg)] = val]

\* (x & 0x8000) != 0
SignBit(x) == BitAnd(x, \h8000) # 0

\* check_overflow that applies the rule of the subtraction to both operations
CheckOverflow_SubtractionRule(operand_a, operand_b, result, is_substraction) ==
    LET a_sign      == SignBit(operand_a)
        b_sign      == SignBit(operand_b)
        result_sign == SignBit(result)
    IN  (~a_sign /\ b_sign /\ result_sign) \/ (a_sign /\ ~b_sign /\ ~result_sign)

\* CPU::check_overflow
CheckOverflow(operand_a, operand_b, result, is_substraction) ==
    LET a_sign      == SignBit(operand_a)
        b_sign      == SignBit(operand_b)
        result_sign == SignBit(result)
    IN  IF is_substraction
        THEN (~a_sign /\ b_sign /\ result_sign) \/ (a_sign /\ ~b_sign /\ ~result_sign)
        ELSE (~a_sign /\ ~b_sign /\ result_sign) \/ (a_sign /\ b_sign /\ ~result_sign)

\* CPU::update_flags_arithmetic
UpdateFlagsArithmetic(c, operand_a, operand_b, result, carry, is_substraction) ==
    [c EXCEPT !.flags =
        [zero     |-> result = 0,
         negative |-> SignBit(result),
         carry    |-> carry,
         overflow |-> CheckOverflow(operand_a, operand_b, result, is_substraction)]]

\* CPU::update_flags_logical
UpdateFlagsLogical(c, result) ==
    [c EXCEPT !.flags =
        [zero |-> result = 0, negative |-> SignBit(result),
         carry |-> FALSE, overflow |-> FALSE]]

\* CPU::update_flags_shift
UpdateFlagsShift(c, result, last_shifted_bit) ==
    [c EXCEPT !.flags =
        [zero |-> result = 0, negative |-> SignBit(result),
         carry |-> last_shifted_bit, overflow |-> FALSE]]

(***************************************************************************)
(* cpu.rs: the instruction handlers.  Each yields the CPU it leaves and    *)
(* the error it returns (kind "Ok" when it returns Ok(())).                *)
(***************************************************************************)
NoError == [kind |-> "Ok"]

Done(c) == [cpu |-> c, err |-> NoError]

Fail(c, e) == [cpu |-> c, err |-> e]

\* From<MemoryError> for CpuError
MemoryOutOfBounds(e) == [kind |-> "MemoryOutOfBounds", addr |-> e.addr]

StackOverflow == [kind |-> "StackOverflow"]

NotImplementedYet == [kind |-> "NotImplementedYet"]

\* CPU::op_add
OpAdd(c, rd, rs, rt) ==
    LET a      == GetRegister(c, rs)
        b      == GetRegister(c, rt)
        result == (a + b) % U16
        carry  == a + b >= U16
    IN  Done(UpdateFlagsArithmetic(SetRegister(c, rd, result), a, b, result, carry, FALSE))

\* op_sub that drops the borrow
OpSub_NoBorrow(c, rd, rs, rt) ==
    LET a      == GetRegister(c, rs)
        b      == GetRegister(c, rt)
        result == (a - b) % U16
    IN  Done(UpdateFlagsArithmetic(SetRegister(c, rd, result), a, b, result, FALSE, TRUE))

\* CPU::op_sub
OpSub(c, rd, rs, rt) ==
    LET a      == GetRegister(c, rs)
        b      == GetRegister(c, rt)
        result == (a - b) % U16
        borrow == a < b
    IN  Done(UpdateFlagsArithmetic(SetRegister(c, rd, result), a, b, result, borrow, TRUE))

\* CPU::op_logical
OpLogical(c, rd, rs, rt, op) ==
    LET a      == GetRegister(c, rs)
        b      == GetRegister(c, rt)
        result == CASE op = "And" -> BitAnd(a, b)
                    [] op = "Or"  -> BitOr(a, b)
                    [] op = "Xor" -> BitXor(a, b)
                    [] op = "Not" -> BitNot(a)
    IN  Done(UpdateFlagsLogical(SetRegister(c, rd, result), result))

\* op_shift without the early return on a zero amount: the flags are updated
OpShift_FlagsOnZero(c, rd, rs, rt, op) ==
    LET value  == GetRegister(c, rs)
        s_size == BitAnd(GetRegister(c, rt), \h000F)
        result == IF op = "Left" THEN Shl(value, s_size) ELSE Shr(value, s_size)
        last_shifted_bit ==
            IF s_size = 0 THEN FALSE
            ELSE IF op = "Left"
                 THEN BitAnd(Shr(value, 16 - s_size), 1) = 1
                 ELSE BitAnd(Shr(value, s_size - 1), 1) = 1
    IN  Done(UpdateFlagsShift(SetRegister(c, rd, result), result, last_shifted_bit))

\* op_shift whose left carry is bit 15 of the value, whatever the amount
OpShift_LeftCarryTopBit(c, rd, rs, rt, op) ==
    LET value  == GetRegister(c, rs)
        s_size == BitAnd(GetRegister(c, rt), \h000F)
    IN  IF s_size = 0 THEN Done(SetRegister(c, rd, value))
        ELSE LET result == IF op = "Left" THEN Shl(value, s_size)
                                          ELSE Shr(value, s_size)
                 last_shifted_bit ==
                     IF op = "Left"
                     THEN BitAnd(Shr(value, 15), 1) = 1
                     ELSE BitAnd(Shr(value, s_size - 1), 1) = 1
             IN  Done(UpdateFlagsShift(SetRegister(c, rd, result), result,
                                       last_shifted_bit))

\* CPU::op_shift
OpShift(c, rd, rs, rt, op) ==
    LET value  == GetRegister(c, rs)
        s_size == BitAnd(GetRegister(c, rt), \h000F)
    IN  IF s_size = 0 THEN Done(SetRegister(c, rd, value))
        ELSE LET result == IF op = "Left" THEN Shl(value, s_size)
                                          ELSE Shr(value, s_size)
                 last_shifted_bit ==
                     IF op = "Left"
                     THEN BitAnd(Shr(value, 16 - s_size), 1) = 1
                     ELSE BitAnd(Shr(value, s_size - 1), 1) = 1
             IN  Done(UpdateFlagsShift(SetRegister(c, rd, result), result,
                                       last_shifted_bit))

\* CPU::op_halt
OpHalt(c) == Done([c EXCEPT !.halted = TRUE])

\* op_load_indirect that reads at the address held in rs
OpLoadIndirect_ThroughValue(c, rd, rs) ==
    LET r == ReadWord(c.memory, GetRegister(c, rs))
    IN  IF ~r.ok THEN Fail(c, MemoryOutOfBounds(r.err))
        ELSE Done(SetRegister(c, rd, r.val))

\* CPU::op_load_indirect
OpLoadIndirect(c, rd, rs) ==
    LET r == ReadWord(c.memory, RegIdx(rs))
    IN  IF ~r.ok THEN Fail(c, MemoryOutOfBounds(r.err))
        ELSE Done(SetRegister(c, rd, r.val))

\* CPU::op_store_indirect
OpStoreIndirect(c, rd, rs) ==
    LET value == GetRegister(c, rd)
        w     == WriteWord(c.memory, RegIdx(rs), value)
    IN  IF ~w.ok THEN Fail(c, MemoryOutOfBounds(w.err))
        ELSE Done([c EXCEPT !.memory = w.mem])

\* CPU::op_cmp
OpCmp(c, rs, rt) ==
    LET operand_a == GetRegister(c, rs)
        operand_b == GetRegister(c, rt)
        result    == (operand_a - operand_b) % U16
        borrow    == operand_a < operand_b
    IN  Done(UpdateFlagsArithmetic(c, operand_a, operand_b, result, borrow, TRUE))

\* op_push that guards with `sp < 1`
OpPush_GuardsOneByte(c, rs) ==
    LET value == GetRegister(c, rs)
    IN  IF c.sp < 1 THEN Fail(c, StackOverflow)
        ELSE LET c1 == [c EXCEPT !.sp = (c.sp - 2) % U16]
                 w  == WriteWord(c1.memory, c1.sp, value)
             IN  IF ~w.ok THEN Fail(c1, MemoryOutOfBounds(w.err))
                 ELSE Done([c1 EXCEPT !.memory = w.mem])

\* CPU::op_push
OpPush(c, rs) ==
    LET value == GetRegister(c, rs)
    IN  IF c.sp < 2 THEN Fail(c, StackOverflow)
        ELSE LET c1 == [c EXCEPT !.sp = (c.sp - 2) % U16]
                 w  == WriteWord(c1.memory, c1.sp, value)
             IN  IF ~w.ok THEN Fail(c1, MemoryOutOfBounds(w.err))
                 ELSE Done([c1 EXCEPT !.memory = w.mem])

\* op_pop that leaves sp where it found it
OpPop_KeepsSp(c, rd) ==
    IF c.sp > \hFFFE THEN Fail(c, StackOverflow)
    ELSE LET r == ReadWord(c.memory, c.sp)
         IN  IF ~r.ok THEN Fail(c, MemoryOutOfBounds(r.err))
             ELSE Done(SetRegister(c, rd, r.val))

\* op_pop without its guard on sp
OpPop_NoGuard(c, rd) ==
    LET r == ReadWord(c.memory, c.sp)
    IN  IF ~r.ok THEN Fail(c, MemoryOutOfBounds(r.err))
        ELSE LET c1 == SetRegister(c, rd, r.val)
             IN  Done([c1 EXCEPT !.sp = (c1.sp + 2) % U16])

\* CPU::op_pop
OpPop(c, rd) ==
    IF c.sp > \hFFFE THEN Fail(c, StackOverflow)
    ELSE LET r == ReadWord(c.memory, c.sp)
         IN  IF ~r.ok THEN Fail(c, MemoryOutOfBounds(r.err))
             ELSE LET c1 == SetRegister(c, rd, r.val)
                  IN  Done([c1 EXCEPT !.sp = (c1.sp + 2) % U16])

\* op_ret that leaves sp where it found it
OpRet_KeepsSp(c) == OpPop_KeepsSp(c, "PC")

\* CPU::op_ret
OpRet(c) == OpPop(c, "PC")

\* convert_12bit_to_signed without the negative arm
Convert12BitToSigned_Unsigned(val) == AsI16(BitAnd(val, \h0FFF))

\* types::convert_12bit_to_signed
Convert12BitToSigned(val) ==
    LET v == BitAnd(val, \h0FFF)
    IN  IF BitAnd(v, \h0800) # 0 THEN AsI16(BitOr(v, \hF000)) ELSE AsI16(v)

\* self.pc.wrapping_add_signed(signed_offset)
WrappingAddSigned(x, d) == (x + d) % U16

\* op_jump whose GreaterThan arm does not look at the zero flag
OpJump_GreaterOrEqual(c, jt, offset) ==
    LET signed_offset == Convert12BitToSigned(offset)
        Taken(k) == SetRegister(k, "PC", WrappingAddSigned(k.pc, signed_offset))
    IN  CASE jt = "Call" ->
                LET p == OpPush(c, "PC")
                IN  IF p.err.kind # "Ok" THEN p ELSE Done(Taken(p.cpu))
          [] jt = "Unconditional" -> Done(Taken(c))
          [] jt = "Zero" -> IF c.flags.zero THEN Done(Taken(c)) ELSE Done(c)
          [] jt = "NotZero" -> IF ~c.flags.zero THEN Done(Taken(c)) ELSE Done(c)
          [] jt = "GreaterThan" ->
                IF c.flags.negative = c.flags.overflow
                THEN Done(Taken(c)) ELSE Done(c)

\* CPU::op_jump
OpJump(c, jt, offset) ==
    LET signed_offset == Convert12BitToSigned(offset)
        Taken(k) == SetRegister(k, "PC", WrappingAddSigned(k.pc, signed_offset))
    IN  CASE jt = "Call" ->
                LET p == OpPush(c, "PC")
                IN  IF p.err.kind # "Ok" THEN p ELSE Done(Taken(p.cpu))
          [] jt = "Unconditional" -> Done(Taken(c))
          [] jt = "Zero" -> IF c.flags.zero THEN Done(Taken(c)) ELSE Done(c)
          [] jt = "NotZero" -> IF ~c.flags.zero THEN Done(Taken(c)) ELSE Done(c)
          [] jt = "GreaterThan" ->
                IF ~c.flags.zero /\ (c.flags.negative = c.flags.overflow)
                THEN Done(Taken(c)) ELSE Done(c)

\* op_add_immediate that zero-extends the immediate byte
OpAddImmediate_ZeroExtends(c, rt, imm) ==
    LET operand_a == GetRegister(c, rt)
        operand_b == imm % U8
        result    == (operand_a + operand_b) % U16
        carry     == operand_a + operand_b >= U16
    IN  Done(UpdateFlagsArithmetic(SetRegister(c, rt, result), operand_a,
                                   operand_b, result, carry, FALSE))

\* CPU::op_add_immediate
OpAddImmediate(c, rt, imm) ==
    LET operand_a == GetRegister(c, rt)
        operand_b == AsU16(imm)
        result    == (operand_a + operand_b) % U16
        carry     == operand_a + operand_b >= U16
    IN  Done(UpdateFlagsArithmetic(SetRegister(c, rt, result), operand_a,
                                   operand_b, result, carry, FALSE))

\* CPU::op_and_immediate
OpAndImmediate(c, rt, imm) ==
    LET value  == GetRegister(c, rt)
        result == BitAnd(value, imm)
    IN  Done(UpdateFlagsLogical(SetRegister(c, rt, result), result))

\* CPU::op_or_immediate
OpOrImmediate(c, rt, imm) ==
    LET value  == GetRegister(c, rt)
        result == BitAnd(value, imm)
    IN  Done(UpdateFlagsLogical(SetRegister(c, rt, result), result))

\* op_cmp_immediate that zero-extends the immediate byte
OpCmpImmediate_ZeroExtends(c, rt, imm) ==
    LET operand_a == GetRegister(c, rt)
        operand_b == imm % U8
        result    == (operand_a - operand_b) % U16
        borrow    == operand_a < operand_b
    IN  Done(UpdateFlagsArithmetic(c, operand_a, operand_b, result, borrow, TRUE))

\* CPU::op_cmp_immediate
OpCmpImmediate(c, rt, imm) ==
    LET operand_a == GetRegister(c, rt)
        operand_b == AsU16(imm)
        result    == (operand_a - operand_b) % U16
        borrow    == operand_a < operand_b
    IN  Done(UpdateFlagsArithmetic(c, operand_a, operand_b, result, borrow, TRUE))

\* op_load_upper_immediate that sets the flags as a logical instruction does
OpLoadUpperImmediate_UpdatesFlags(c, rt, imm) ==
    Done(UpdateFlagsLogical(SetRegister(c, rt, Shl(imm, 8)), Shl(imm, 8)))

\* CPU::op_load_upper_immediate
OpLoadUpperImmediate(c, rt, imm) == Done(SetRegister(c, rt, Shl(imm, 8)))

\* op_load that reads the word and leaves rt as it was
OpLoad_KeepsRegister(c, rt, addr) ==
    LET r == ReadWord(c.memory, addr)
    IN  IF ~r.ok THEN Fail(c, MemoryOutOfBounds(r.err)) ELSE Done(c)

\* CPU::op_load
OpLoad(c, rt, addr) ==
    LET r == ReadWord(c.memory, addr)
    IN  IF ~r.ok THEN Fail(c, MemoryOutOfBounds(r.err))
        ELSE Done(SetRegister(c, rt, r.val))

\* CPU::op_store
OpStore(c, rt, addr) ==
    LET value == GetRegister(c, rt)
        w     == WriteWord(c.memory, addr, value)
    IN  IF ~w.ok THEN Fail(c, MemoryOutOfBounds(w.err))
        ELSE Done([c EXCEPT !.memory = w.mem])

\* CPU::op_movs
OpMovs(c, rt, spec, to_special) ==
    LET source == IF to_special THEN rt ELSE spec
        target == IF to_special THEN spec ELSE rt
    IN  Done(SetRegister(c, target, GetRegister(c, source)))

\* CPU::execute
Execute(c, i) ==
    CASE i.op = "Add" -> OpAdd(c, i.rd, i.rs, i.rt)
      [] i.op = "Sub" -> OpSub(c, i.rd, i.rs, i.rt)
      [] i.op = "And" -> OpLogical(c, i.rd, i.rs, i.rt, "And")
      [] i.op = "Or"  -> OpLogical(c, i.rd, i.rs, i.rt, "Or")
      [] i.op = "Xor" -> OpLogical(c, i.rd, i.rs, i.rt, "Xor")
      [] i.op = "Not" -> OpLogical(c, i.rd, "R0", i.rt, "Not")
      [] i.op = "Sll" -> OpShift(c, i.rd, i.rs, i.rt, "Left")
      [] i.op = "Shr" -> OpShift(c, i.rd, i.rs, i.rt, "Right")
      [] i.op = "LoadIndirect"  -> OpLoadIndirect(c, i.rd, i.rs)
      [] i.op = "StoreIndirect" -> OpStoreIndirect(c, i.rd, i.rs)
      [] i.op = "Push" -> OpPush(c, i.rs)
      [] i.op = "Pop"  -> OpPop(c, i.rd)
      [] i.op = "Cmp"  -> OpCmp(c, i.rs, i.rt)
      [] i.op = "Jump" -> OpJump(c, i.jump_type, i.offset)
      [] i.op = "Return" -> OpRet(c)
      [] i.op = "AddImmediate" -> OpAddImmediate(c, i.rt, i.imm)
      [] i.op = "AndImmediate" -> OpAndImmediate(c, i.rt, i.imm)
      [] i.op = "OrImmediate"  -> OpOrImmediate(c, i.rt, i.imm)
      [] i.op = "CmpImmediate" -> OpCmpImmediate(c, i.rt, i.imm)
      [] i.op = "LoadUperImmediate" -> OpLoadUpperImmediate(c, i.rt, i.imm)
      [] i.op = "Load"  -> OpLoad(c, i.rt, i.addr)
      [] i.op = "Store" -> OpStore(c, i.rt, i.addr)
      [] i.op = "MoveFromSpecial"   -> OpMovs(c, i.rt, i.spec, FALSE)
      [] i.op = "MoveFromToSpecial" -> OpMovs(c, i.rt, i.spec, TRUE)
      [] i.op = "Nop"  -> Done(c)
      [] i.op = "Halt" -> OpHalt(c)
      [] i.op = "Sysall" -> Fail(c, NotImplementedYet)

(***************************************************************************)
(* cpu.rs: step, load_program                                              *)
(***************************************************************************)
\* self.pc.saturating_add(2)
SaturatingAdd(x, y) == IF x + y > U16 - 1 THEN U16 - 1 ELSE x + y

\* self.pc.wrapping_add(2)
WrappingAdd(x, y) == (x + y) % U16

ProgramBoundsViolation(c, instruction_end) ==
    [kind |-> "ProgramBoundsViolation", pc |-> c.pc, iend |-> instruction_end,
     low |-> c.program_start, high |-> c.program_end]

\* secure_boundaries without the lower bound
SecureBoundaries_NoLowerBound(c) ==
    LET instruction_end == SaturatingAdd(c.pc, 2)
    IN  IF instruction_end > c.program_end
        THEN ProgramBoundsViolation(c, instruction_end)
        ELSE NoError

\* CPU::secure_boundaries
SecureBoundaries(c) ==
    LET instruction_end == SaturatingAdd(c.pc, 2)
    IN  IF c.pc < c.program_start \/ instruction_end > c.program_end
        THEN ProgramBoundsViolation(c, instruction_end)
        ELSE NoError

InvalidInstruction(word, e) ==
    [kind |-> "InvalidInstruction", word |-> word, err |-> e]

NoInstruction == [op |-> "None"]

\* what a step() call leaves and returns; fetch is the set of byte addresses
\* its fetch read, ins the instruction it handed to execute
StepResult(c, val, e, fetch, ins) ==
    [cpu |-> c, val |-> val, err |-> e, fetch |-> fetch, ins |-> ins]

\* step() that gives pc its old value back when the decode fails
StepRunning_DecodeErrorKeepsPc(c) ==
    LET b == SecureBoundaries(c)
    IN  IF b.kind # "Ok" THEN StepResult(c, "Err", b, {}, NoInstruction)
        ELSE LET r == ReadWord(c.memory, c.pc)
             IN  IF ~r.ok
                 THEN StepResult(c, "Err", MemoryOutOfBounds(r.err), {}, NoInstruction)
                 ELSE LET c1   == [c EXCEPT !.pc = WrappingAdd(c.pc, 2)]
                          read == {c.pc, c.pc + 1}
                          word == WordNew(r.val)
                          d    == Decode(word)
                      IN  IF ~d.ok
                          THEN StepResult(c, "Err", InvalidInstruction(word, d.err), 
                                          read, NoInstruction)
                          ELSE LET x == Execute(c1, d.ins)
                               IN  IF x.err.kind # "Ok"
                                   THEN StepResult(x.cpu, "Err", x.err, read, d.ins)
                                   ELSE StepResult(x.cpu, "Ok(true)", NoError, read, d.ins)

\* CPU::step past the halted check: boundary check, fetch, decode, execute
StepRunning(c) ==
    LET b == SecureBoundaries(c)
    IN  IF b.kind # "Ok" THEN StepResult(c, "Err", b, {}, NoInstruction)
        ELSE LET r == ReadWord(c.memory, c.pc)
             IN  IF ~r.ok
                 THEN StepResult(c, "Err", MemoryOutOfBounds(r.err), {}, NoInstruction)
                 ELSE LET c1   == [c EXCEPT !.pc = WrappingAdd(c.pc, 2)]
                          read == {c.pc, c.pc + 1}
                          word == WordNew(r.val)
                          d    == Decode(word)
                      IN  IF ~d.ok
                          THEN StepResult(c1, "Err", InvalidInstruction(word, d.err),
                                          read, NoInstruction)
                          ELSE LET x == Execute(c1, d.ins)
                               IN  IF x.err.kind # "Ok"
                                   THEN StepResult(x.cpu, "Err", x.err, read, d.ins)
                                   ELSE StepResult(x.cpu, "Ok(true)", NoError, read, d.ins)

\* step() that does not look at halted
Step_IgnoresHalted(c) == StepRunning(c)

\* step() that clears halted when it finds it set
Step_ClearsHalted(c) ==
    IF c.halted
    THEN StepResult([c EXCEPT !.halted = FALSE], "Ok(false)", NoError, {}, NoInstruction)
    ELSE StepRunning(c)

\* CPU::step
Step(c) ==
    IF c.halted THEN StepResult(c, "Ok(false)", NoError, {}, NoInstruction)
    ELSE StepRunning(c)

\* one pass of the loop of CPU::run that lets an error of step() go by and
\* carries on
RunIteration_SkipsErrors(c) ==
    LET r == Step(c)
    IN  [cpu |-> r.cpu, step |-> r, returns |-> r.val = "Ok(false)",
         val |-> IF r.val = "Ok(false)" THEN "Ok" ELSE "running",
         err |-> NoError]

\* what the loop of CPU::run does with the result r of a step() call: `?`
\* returns its error, a false ends the loop, a true goes on
RunOutcome(r) ==
    [cpu |-> r.cpu, step |-> r, returns |-> r.val # "Ok(true)",
     val |-> CASE r.val = "Err"       -> "Err"
               [] r.val = "Ok(false)" -> "Ok"
               [] OTHER               -> "running",
     err |-> r.err]

\* one pass of the loop of CPU::run, `while self.step()? {}`: the step() call,
\* whether run() returns after it, and what it returns
RunIteration(c) == RunOutcome(Step(c))

\* the write loop of CPU::load_program: byte i of the program goes to address
\* start_addr + i (which wraps when the build does not check overflow); a
\* program is shorter than the memory, so no address is written twice
WriteProgram(m, program, start_addr) ==
    LET AddrOf(i) == (start_addr + (i - 1)) % U16
        written   == { AddrOf(i) : i \in 1..Len(program) }
        ByteAt(a) == program[CHOOSE i \in 1..Len(program) : AddrOf(i) = a]
        nonzero   == { a \in written : ByteAt(a) # 0 }
    IN  [a \in ((DOMAIN m) \ written) \cup nonzero |->
            IF a \in written THEN ByteAt(a) ELSE m[a]]

\* `program.len() as u16`
ProgramSize(program) == Len(program) % U16

\* whether `start_addr + program_size` overflows u16
LoadOverflows(program, start_addr) == start_addr + ProgramSize(program) >= U16

\* CPU::load_program, in a build without overflow checks (and in any build when
\* nothing overflows)
LoadProgram(c, program, start_addr) ==
    [c EXCEPT !.program_start = start_addr,
              !.program_end   = (start_addr + ProgramSize(program)) % U16,
              !.pc            = start_addr,
              !.sp            = \hFFFE,
              !.memory        = WriteProgram(c.memory, program, start_addr)]

\* CPU::load_program, in a build with overflow checks, when
\* `start_addr + program_size` overflows: the addition panics
LoadProgramPanicking(c, program, start_addr) ==
    [c EXCEPT !.program_start = start_addr]

(***************************************************************************)
(* Programs and start addresses the engine is driven with                  *)
(***************************************************************************)
\* main.rs program(): each word as two bytes, low byte first
ProgramBytes(words) ==
    [k \in 1..(2 * Len(words)) |->
        LET bits == ToBits(words[(k + 1) \div 2])
        IN  IF k % 2 = 1 THEN AsU8(Shr(Shl(bits, 8), 8)) ELSE AsU8(Shr(bits, 8))]

ADDI(rt, imm) == IType(4, rt, imm)

HALT == EType(15, 0, 0)

\* the demo program of main.rs
DemoProgram ==
    ProgramBytes(<< ADDI(1, 5), ADDI(2, 3), RType(0, 3, 1, 2, 0),
                    IType(3, 3, \h1F), IType(2, 5, \h1F), HALT >>)

\* a lone HALT, and with a byte trailing it
HaltProgram == ProgramBytes(<< HALT >>)

\* every kind of instruction that writes a register, naming R0 as its
\* destination, after R1 has been given a non-zero value and pushed
R0Program ==
    ProgramBytes(<< ADDI(1, \h7F), RType(1, 0, 1, 0, 4),
                    RType(0, 0, 1, 1, 0), RType(0, 0, 1, 0, 1), RType(0, 0, 1, 1, 2),
                    RType(0, 0, 1, 1, 3), RType(0, 0, 1, 0, 4), RType(0, 0, 0, 1, 5),
                    RType(0, 0, 1, 1, 6), RType(0, 0, 1, 0, 7), RType(1, 0, 1, 0, 0),
                    IType(2, 0, \h10), ADDI(0, 5), IType(5, 0, \hFF),
                    IType(6, 0, \hFF), IType(7, 0, \hFF), EType(1, 0, 1),
                    RType(1, 0, 0, 0, 5), HALT >>)

\* leaves non-zero registers, flags and stack memory behind
SetupProgram ==
    ProgramBytes(<< ADDI(1, \h7F), RType(1, 0, 1, 0, 4), EType(2, 2, 1), HALT >>)

\* an undefined R-type (opcode 1, funct 7) followed by defined instructions
InvalidProgram == ProgramBytes(<< RType(1, 0, 0, 0, 7), ADDI(1, 1), HALT >>)

\* an E-type word with an undefined subcode (3), then a move from a special
\* register whose selector (3) names none, then defined instructions
InvalidEProgram ==
    ProgramBytes(<< EType(3, 0, 0), EType(1, 1, 3), ADDI(1, 1), HALT >>)

\* SYSALL followed by HALT
SysallProgram == ProgramBytes(<< EType(14, 0, 0), HALT >>)

\* a jump to before the program (offset -4), and a jump onto itself (offset -2)
JumpOutProgram == ProgramBytes(<< JType(10, \hFFC) >>)

JumpSelfProgram == ProgramBytes(<< JType(10, \hFFE) >>)

\* NOP, then execution runs off the end of the program
NopProgram == ProgramBytes(<< EType(0, 0, 0) >>)

\* a word whose opcode nibble (0xE) belongs to no layout: 0xE123
NoLayoutProgram == << \h23, \hE1 >>

Programs ==
    { << >>, << \hFF >>, HaltProgram, HaltProgram \o << \hFF >>, DemoProgram,
      R0Program, SetupProgram, InvalidProgram, SysallProgram, JumpOutProgram,
      JumpSelfProgram, NopProgram, NoLayoutProgram, InvalidEProgram }

StartAddrs == { \h0010, \hFFFD, \hFFFE }

\* the programs that are loaded next to the end of the memory too: of 0, 1, 2
\* and 3 bytes
EdgePrograms == { << >>, << \hFF >>, HaltProgram, HaltProgram \o << \hFF >> }

\* the load_program calls made: every program at 0x0010, and the short ones
\* at the addresses next to the end of the memory too
LoadArgs ==
    { l \in [program : Programs, start_addr : StartAddrs] :
        l.start_addr = \h0010 \/ l.program \in EdgePrograms }

\* at most this many load_program calls in a run
MaxLoads == 2

\* the count of progressing steps of a run() call stops growing here
MaxProgress == 8

(***************************************************************************)
(* The engine as a state machine                                           *)
(***************************************************************************)
\* the CPU value held in the variables
Cpu ==
    [registers |-> registers, pc |-> pc, sp |-> sp, flags |-> flags,
     memory |-> memory, halted |-> halted, program_start |-> program_start,
     program_end |-> program_end]

\* the variables take the fields of c
CpuBecomes(c) ==
    /\ registers' = c.registers
    /\ pc' = c.pc
    /\ sp' = c.sp
    /\ flags' = c.flags
    /\ memory' = c.memory
    /\ halted' = c.halted
    /\ program_start' = c.program_start
    /\ program_end' = c.program_end

NoArgs == [program |-> << >>, start_addr |-> 0]

\* what CPU::new returns to its caller
NewReturned ==
    [op |-> "new", val |-> "Ok", err |-> NoError, fetch |-> {},
     ins |-> NoInstruction, args |-> NoArgs]

\* no run() call is in its loop, and the last call was not run()
RunIdle == [active |-> FALSE, progress |-> 0, entry |-> NewReturned]

CodecIdle == [pc |-> "idle", bits0 |-> 0, word0 |-> RType(0, 0, 0, 0, 0),
              word |-> RType(0, 0, 0, 0, 0), bits |-> 0]

\* no Memory scenario is under way
MemoryIdle == [pc |-> "idle", address |-> 0, value |-> 0, length |-> 0,
               before |-> MemoryDefault, err |-> NoError, word |-> 0,
               range |-> << >>]

\* CPU::new: every field at its default
CpuNew ==
    [registers |-> [i \in 0..7 |-> 0], pc |-> 0, sp |-> 0,
     flags |-> [zero |-> FALSE, negative |-> FALSE, carry |-> FALSE,
                overflow |-> FALSE],
     memory |-> MemoryDefault, halted |-> FALSE, program_start |-> 0,
     program_end |-> 0]

InitCpu ==
    /\ registers = CpuNew.registers
    /\ pc = CpuNew.pc
    /\ sp = CpuNew.sp
    /\ flags = CpuNew.flags
    /\ memory = CpuNew.memory
    /\ halted = CpuNew.halted
    /\ program_start = CpuNew.program_start
    /\ program_end = CpuNew.program_end
    /\ panicked = FALSE
    /\ loads = 0
    /\ ret = NewReturned
    /\ run = RunIdle
    /\ history = << >>

Init ==
    /\ InitCpu
    /\ codec = CodecIdle
    /\ mcall = MemoryIdle

\* a call of cpu.load_program(program, start_addr) that returns
LoadProgramCall ==
    \E program \in Programs, start_addr \in StartAddrs :
        /\ [program |-> program, start_addr |-> start_addr] \in LoadArgs
        /\ ~panicked
        /\ ~run.active
        /\ loads < MaxLoads
        /\ CpuBecomes(LoadProgram(Cpu, program, start_addr))
        /\ loads' = loads + 1
        /\ ret' = [op |-> "load_program", val |-> "Ok", err |-> NoError,
                   fetch |-> {}, ins |-> NoInstruction,
                   args |-> [program |-> program, start_addr |-> start_addr]]
        /\ run' = RunIdle
        /\ UNCHANGED << panicked, codec, mcall, history >>

\* a call of cpu.load_program(program, start_addr) that panics on the overflow
\* of start_addr + program_size (a build with overflow checks)
LoadProgramPanic ==
    \E program \in Programs, start_addr \in StartAddrs :
        /\ [program |-> program, start_addr |-> start_addr] \in LoadArgs
        /\ ~panicked
        /\ ~run.active
        /\ loads < MaxLoads
        /\ LoadOverflows(program, start_addr)
        /\ CpuBecomes(LoadProgramPanicking(Cpu, program, start_addr))
        /\ panicked' = TRUE
        /\ loads' = loads + 1
        /\ ret' = [op |-> "load_program", val |-> "panic", err |-> NoError,
                   fetch |-> {}, ins |-> NoInstruction,
                   args |-> [program |-> program, start_addr |-> start_addr]]
        /\ run' = RunIdle
        /\ UNCHANGED << codec, mcall, history >>

\* a call of cpu.step()
StepCall ==
    /\ ~panicked
    /\ ~run.active
    /\ loads > 0
    /\ LET r == Step(Cpu)
       IN  /\ CpuBecomes(r.cpu)
           /\ ret' = [op |-> "step", val |-> r.val, err |-> r.err,
                      fetch |-> r.fetch, ins |-> r.ins, args |-> NoArgs]
    /\ run' = RunIdle
    /\ UNCHANGED << panicked, loads, codec, mcall, history >>

\* a call of cpu.run() enters its loop; entry keeps what the call before it
\* returned
RunCall ==
    /\ ~panicked
    /\ ~run.active
    /\ loads > 0
    /\ run' = [active |-> TRUE, progress |-> 0, entry |-> ret]
    /\ ret' = [op |-> "run", val |-> "running", err |-> NoError, fetch |-> {},
               ins |-> NoInstruction, args |-> NoArgs]
    /\ UNCHANGED << registers, pc, sp, flags, memory, halted, program_start,
                    program_end, panicked, loads, codec, mcall, history >>

\* the run() call in progress takes the pass `it` of its loop
RunTakes(it) ==
    /\ CpuBecomes(it.cpu)
    /\ run' = [run EXCEPT
                 !.active = ~it.returns,
                 !.progress = IF it.step.val = "Ok(true)" /\ @ < MaxProgress
                              THEN @ + 1 ELSE @]
    /\ ret' = [op |-> "run", val |-> it.val, err |-> it.err,
               fetch |-> it.step.fetch, ins |-> it.step.ins, args |-> NoArgs]

\* one pass of the loop of the run() call in progress: a step() call, after
\* which run() goes on, or returns Ok(()) or the error of the step
RunStep ==
    /\ run.active
    /\ RunTakes(RunIteration(Cpu))
    /\ UNCHANGED << panicked, loads, codec, mcall, history >>

Next == LoadProgramCall \/ LoadProgramPanic \/ StepCall \/ RunCall \/ RunStep

Spec == Init /\ [][Next]_vars

\* a run() call in progress is not suspended forever: as long as run() is in
\* its loop, the loop keeps taking passes
SpecFair == Spec /\ ([]<>(~run.active) \/ []<><<RunStep>>_vars)

(***************************************************************************)
(* The Word codec driven on its own: Word::new and Word::to_bits applied   *)
(* to every 16-bit value and to every Word whose fields are in range       *)
(***************************************************************************)
AllBits == 0..(U16 - 1)

\* the Word values whose fields are in range for their layout
InRangeWords ==
    { RType(o, rd, rs, rt, f) : o \in 0..1, rd \in 0..7, rs \in 0..7, rt \in 0..7, f \in 0..7 }
    \cup { IType(o, rt, imm) : o \in 2..8, rt \in 0..7, imm \in 0..255 }
    \cup { JType(o, off) : o \in 9..13, off \in 0..4095 }
    \cup { EType(sub, rs, rt) : sub \in 0..15, rs \in 0..7, rt \in 0..7 }

InitCodec ==
    /\ InitCpu
    /\ mcall = MemoryIdle
    /\ \/ \E b \in AllBits : codec = [CodecIdle EXCEPT !.pc = "bits", !.bits0 = b]
       \/ \E w \in InRangeWords : codec = [CodecIdle EXCEPT !.pc = "word", !.word0 = w]

\* Word::new(bits) on the input value, or on the encoding of the input word
WordNewCall ==
    /\ codec.pc \in {"bits", "word_encoded"}
    /\ codec' = [codec EXCEPT
                    !.word = WordNew(IF codec.pc = "bits" THEN codec.bits0 ELSE codec.bits),
                    !.pc = IF codec.pc = "bits" THEN "bits_decoded" ELSE "word_done"]
    /\ UNCHANGED << cpuvars, mcall >>

\* word.to_bits() on the input word, or on the decoding of the input value
ToBitsCall ==
    /\ codec.pc \in {"word", "bits_decoded"}
    /\ codec' = [codec EXCEPT
                    !.bits = ToBits(IF codec.pc = "word" THEN codec.word0 ELSE codec.word),
                    !.pc = IF codec.pc = "word" THEN "word_encoded" ELSE "bits_done"]
    /\ UNCHANGED << cpuvars, mcall >>

NextCodec == WordNewCall \/ ToBitsCall

SpecCodec == InitCodec /\ [][NextCodec]_vars

(***************************************************************************)
(* The Memory driven on its own: write_word, read_word and get_range       *)
(* applied at addresses around the ends of the memory, on an empty memory  *)
(* and on one whose bytes around those addresses are non-zero              *)
(***************************************************************************)
WordAddrs == (0..3) \cup { \h00FF, \h0100, \h7FFF, \h8000 } \cup (\hFFFC..\hFFFF)

ByteSamples == { 0, 1, \h12, \h34, \h7F, \h80, \hFF }

WordValues == { lo + U8 * hi : lo \in ByteSamples, hi \in ByteSamples }

RangeStarts == { 0, 1, \h00FF, \hFFF0, \hFFFE, \hFFFF }

RangeLengths == { 0, 1, 2, 15, 16, 17, \hFF01, \hFFFE, \hFFFF }

\* a memory left by earlier writes: a non-zero byte at every address next to
\* a tested one
FilledMemory ==
    LET near == { x \in 0..(MEMORY_SIZE - 1) :
                    \E a \in WordAddrs \cup RangeStarts : x \in (a - 2)..(a + 17) }
    IN  [x \in near |-> (x % 251) + 1]

InitialMemories == { MemoryDefault, FilledMemory }

InitMemory ==
    /\ registers = CpuNew.registers
    /\ pc = CpuNew.pc
    /\ sp = CpuNew.sp
    /\ flags = CpuNew.flags
    /\ memory \in InitialMemories
    /\ halted = CpuNew.halted
    /\ program_start = CpuNew.program_start
    /\ program_end = CpuNew.program_end
    /\ panicked = FALSE
    /\ loads = 0
    /\ ret = NewReturned
    /\ run = RunIdle
    /\ history = << >>
    /\ codec = CodecIdle
    /\ \/ \E a \in WordAddrs, v \in WordValues :
             mcall = [MemoryIdle EXCEPT !.pc = "word", !.address = a, !.value = v,
                                        !.before = memory]
       \/ \E a \in RangeStarts, n \in RangeLengths :
             mcall = [MemoryIdle EXCEPT !.pc = "range", !.address = a, !.length = n,
                                        !.before = memory]

\* memory.write_word(address, value)
WriteWordCall ==
    /\ mcall.pc = "word"
    /\ LET w == WriteWord(memory, mcall.address, mcall.value)
       IN  /\ memory' = w.mem
           /\ mcall' = [mcall EXCEPT !.pc = "written",
                                     !.err = IF w.ok THEN NoError ELSE w.err]
    /\ UNCHANGED << registers, pc, sp, flags, halted, program_start, program_end,
                    panicked, loads, ret, run, codec, history >>

\* memory.read_word(address), on the memory as it was or after the write_word
ReadWordCall ==
    /\ mcall.pc \in {"word", "written"}
    /\ LET r == ReadWord(memory, mcall.address)
       IN  mcall' = [mcall EXCEPT
                        !.pc = IF mcall.pc = "word" THEN "read" ELSE "read_back",
                        !.err = IF r.ok THEN NoError ELSE r.err,
                        !.word = r.val]
    /\ UNCHANGED << cpuvars, codec >>

\* memory.get_range(address, length)
GetRangeCall ==
    /\ mcall.pc = "range"
    /\ mcall' = [mcall EXCEPT !.pc = "ranged",
                              !.range = GetRange(memory, mcall.address, mcall.length)]
    /\ UNCHANGED << cpuvars, codec >>

NextMemory == WriteWordCall \/ ReadWordCall \/ GetRangeCall

SpecMemory == InitMemory /\ [][NextMemory]_vars

(***************************************************************************)
(* execute() driven on its own: one arithmetic or shift instruction, on    *)
(* operands at the edges of the unsigned and signed ranges.  R1 and R2     *)
(* hold the operands and the flags one of four settings, as earlier        *)
(* LoadUperImmediate, AddImmediate and MoveFromToSpecial leave them.       *)
(***************************************************************************)
Operands ==
    { 0, 1, 2, \h000F, \h0010, \h00FF, \h0100, \h1234, \h4000, \h5555,
      \h7FFE, \h7FFF, \h8000, \h8001, \h8010, \hAAAA, \hC000, \hFFFE, \hFFFF }

FlagSettings ==
    { FlagsFromU16(0), FlagsFromU16(\h0F), FlagsFromU16(\h05), FlagsFromU16(\h0A) }

\* the immediates of AndImmediate and OrImmediate (u8), and those of
\* CmpImmediate (i8)
ByteImmediates == { 0, 1, \h0F, \h80, \hFF }

SignedImmediates == { -128, -1, 0, 1, 127 }

\* Add, Sub, Sll and Shr, with rd apart from the operands, on one of them, and
\* with one register as both operands; Not apart from its operand and onto
\* it; AndImmediate and OrImmediate on R1; Cmp of R1 with R2 and of R2 with
\* itself; CmpImmediate of R1; AddImmediate on R1 as the decoder reads it
\* from the I-type words with the raw immediates (0x7F among them)
AluInstructions ==
    { [op |-> o, rd |-> rd, rs |-> "R1", rt |-> "R2"] :
        o \in {"Add", "Sub", "Sll", "Shr"}, rd \in {"R1", "R2", "R3"} }
    \cup { [op |-> o, rd |-> "R3", rs |-> "R2", rt |-> "R2"] :
        o \in {"Add", "Sub", "Sll", "Shr"} }
    \cup { [op |-> "Not", rd |-> rd, rt |-> "R1"] : rd \in {"R1", "R3"} }
    \cup { [op |-> o, rt |-> "R1", imm |-> imm] :
        o \in {"AndImmediate", "OrImmediate"}, imm \in ByteImmediates }
    \cup { [op |-> "Cmp", rs |-> "R1", rt |-> "R2"],
           [op |-> "Cmp", rs |-> "R2", rt |-> "R2"] }
    \cup { [op |-> "CmpImmediate", rt |-> "R1", imm |-> imm] :
        imm \in SignedImmediates }
    \cup { Decode(ADDI(1, imm)).ins : imm \in ByteImmediates \cup { \h7F } }

\* the shift amounts that the low 4 bits of no operand give
ShiftAmounts == { 3, 6, 7, 8, 9, 11, 12, 13 }

\* the values of R1 and R2: every pair of operands, and every operand with
\* each of the remaining shift amounts
OperandPairs ==
    (Operands \X Operands) \cup (Operands \X ShiftAmounts)

InitAlu ==
    /\ \E ab \in OperandPairs :
          registers = [CpuNew.registers EXCEPT ![1] = ab[1], ![2] = ab[2]]
    /\ pc = CpuNew.pc
    /\ sp = CpuNew.sp
    /\ flags \in FlagSettings
    /\ memory = CpuNew.memory
    /\ halted = CpuNew.halted
    /\ program_start = CpuNew.program_start
    /\ program_end = CpuNew.program_end
    /\ panicked = FALSE
    /\ loads = 0
    /\ ret = NewReturned
    /\ run = RunIdle
    /\ history = << >>
    /\ codec = CodecIdle
    /\ mcall = MemoryIdle

\* a call of cpu.execute(instruction)
ExecuteCall ==
    \E i \in AluInstructions :
        /\ ret.op = "new"
        /\ LET x == Execute(Cpu, i)
           IN  /\ CpuBecomes(x.cpu)
               /\ ret' = [op |-> "execute",
                          val |-> IF x.err = NoError THEN "Ok" ELSE "Err",
                          err |-> x.err, fetch |-> {}, ins |-> i, args |-> NoArgs]
        /\ UNCHANGED << panicked, loads, run, codec, mcall, history >>

NextAlu == ExecuteCall

SpecAlu == InitAlu /\ [][NextAlu]_vars
(***************************************************************************)
(* step() on its own: one short program is loaded, the instructions run    *)
(* before have left R1, R2, sp and the flags at chosen values, and step()  *)
(* is called a few times; history keeps the CPU and the last result that   *)
(* each call found                                                         *)
(***************************************************************************)
PUSH(rs) == RType(1, 0, rs, 0, 4)

POP(rd) == RType(1, rd, 0, 0, 5)

RETURN == RType(1, 0, 0, 0, 3)

NOP == EType(0, 0, 0)

SYSALL == EType(14, 0, 0)

\* the stack pointers a scenario starts from: the ends of the stack region,
\* the empty stack, and values next to the program at 0x0010
StackPointers ==
    { 0, 1, 2, 3, \h0014, \h0100, \h0101, \hFFFC, \hFFFD, \hFFFE, \hFFFF }

\* the values R1 starts from
PushedValues == { 0, 1, \h1234, \h8000, \hFFFF }

\* every setting of the four flags
AllFlags == { FlagsFromU16(n) : n \in 0..15 }

\* the raw 12-bit offsets of the jumps: 0, +2, the largest, the smallest, -1,
\* -4 and +4
JumpOffsets == { 0, 2, \h7FF, \h800, \hFFF, \hFFC, 4 }

\* the J-type opcodes: Call, Unconditional, Zero, NotZero, GreaterThan
JumpOpcodes == 9..13

\* Push then Pop (apart, onto the source, into R0, and of R0), and Pop then
\* Push
StackPrograms ==
    { ProgramBytes(<< PUSH(1), POP(2) >>), ProgramBytes(<< PUSH(1), POP(1) >>),
      ProgramBytes(<< PUSH(1), POP(0) >>), ProgramBytes(<< PUSH(0), POP(2) >>),
      ProgramBytes(<< POP(2), PUSH(1) >>) }

\* one jump of every kind and offset, followed by a NOP
JumpPrograms ==
    { ProgramBytes(<< JType(k, o), NOP >>) : k \in JumpOpcodes, o \in JumpOffsets }

\* an unconditional jump of every raw 12-bit offset, followed by a NOP
OffsetPrograms == { ProgramBytes(<< JType(10, o), NOP >>) : o \in 0..\h0FFF }

\* a Call over a NOP onto a Return, and a Return before any Call
CallPrograms ==
    { ProgramBytes(<< JType(9, 2), NOP, RETURN >>),
      ProgramBytes(<< RETURN, NOP >>) }

\* instructions that fail, or may: SYSALL (also with its unused fields set:
\* 0xFE74 and 0xFEFF), words with no instruction, the memory instructions
\* (indirect through R1 and R2, direct at 0xFF), and HALT
FaultPrograms ==
    { ProgramBytes(<< SYSALL, NOP >>),
      ProgramBytes(<< EType(14, 3, 5), NOP >>),
      << \hFF, \hFE, \h00, \hF0 >>,
      ProgramBytes(<< RType(1, 0, 0, 0, 7), NOP >>),
      ProgramBytes(<< EType(3, 0, 0), EType(1, 1, 3) >>),
      ProgramBytes(<< RType(1, 2, 1, 0, 0), RType(1, 2, 1, 0, 1) >>),
      ProgramBytes(<< IType(2, 2, \hFF), IType(3, 1, \hFF) >>),
      ProgramBytes(<< HALT, NOP >>) }

\* StoreIndirect then LoadIndirect through R1, and through R7; Store then
\* Load at 0x20, then LoadUpperImmediate
MemoryPrograms ==
    { ProgramBytes(<< RType(1, 2, 1, 0, 1), RType(1, 3, 1, 0, 0) >>),
      ProgramBytes(<< RType(1, 1, 7, 0, 1), RType(1, 4, 7, 0, 0) >>),
      ProgramBytes(<< IType(3, 1, \h20), IType(2, 3, \h20), IType(7, 4, \h80) >>) }

\* every word whose opcode nibble is 0xF, low byte first, followed by a NOP
ETypePrograms ==
    { << w % 256, \hF0 + (w \div 256), \h00, \hF0 >> : w \in 0..\h0FFF }

\* the move of R1 to FLAGS, then the move of FLAGS to R3
FlagsPrograms == { ProgramBytes(<< EType(2, 2, 1), EType(1, 3, 2) >>) }

\* the values moved to FLAGS: every value of the low 4 bits, and values with
\* higher bits set
FlagsValues == 0..15 \cup { \h0010, \h1234, \h8005, \hFFF0, \hFFFF }

\* AddImmediate, Cmp and a shift left, and And, Not and Sub
ArithmeticPrograms ==
    { ProgramBytes(<< ADDI(1, 1), RType(1, 0, 1, 2, 2), RType(0, 3, 1, 2, 6) >>),
      ProgramBytes(<< RType(0, 3, 1, 2, 2), RType(0, 4, 0, 1, 5),
                      RType(0, 5, 1, 2, 1) >>) }

Scenario(program, start_addr, s, v, f) ==
    [program |-> program, start_addr |-> start_addr, sp |-> s, r1 |-> v,
     flags |-> f]

\* the scenarios: the stack programs from every stack pointer and value, the
\* jumps under every setting of the flags at both ends of the memory, the
\* calls and the failing programs from every stack pointer, the jumps of every
\* offset, every E-type word, the moves to and from FLAGS with every value,
\* the memory and the arithmetic programs with every value of R1, and an
\* empty program at the last address
Scenarios ==
    { Scenario(p, \h0010, s, v, f) :
        p \in StackPrograms, s \in StackPointers, v \in PushedValues,
        f \in { FlagsFromU16(0), FlagsFromU16(\h0F) } }
    \cup { Scenario(p, a, s, 1, f) :
        p \in JumpPrograms, a \in { \h0010, \hFFF0 }, s \in { 1, \hFFFE },
        f \in AllFlags }
    \cup { Scenario(p, a, s, \h1234, FlagsFromU16(\h05)) :
        p \in CallPrograms, a \in { \h0010, \hFFF0 }, s \in StackPointers }
    \cup { Scenario(p, \h0010, s, v, FlagsFromU16(\h0A)) :
        p \in FaultPrograms, s \in { 0, \hFFFE, \hFFFF }, v \in { \h0100, \hFFFF } }
    \cup { Scenario(p, \h0010, \hFFFE, 1, FlagsFromU16(0)) : p \in OffsetPrograms }
    \cup { Scenario(p, \h0010, \hFFFE, \h1234, FlagsFromU16(\h0A)) :
        p \in ETypePrograms }
    \cup { Scenario(p, \h0010, \hFFFE, v, f) :
        p \in FlagsPrograms, v \in FlagsValues,
        f \in { FlagsFromU16(0), FlagsFromU16(\h0F) } }
    \cup { Scenario(p, \h0010, \hFFFE, v, f) :
        p \in MemoryPrograms \cup ArithmeticPrograms, v \in PushedValues \cup { \h0100 },
        f \in { FlagsFromU16(\h0F), FlagsFromU16(\h05) } }
    \cup { Scenario(<< >>, \hFFFF, \hFFFE, 0, FlagsFromU16(\h0A)) }

\* the CPU at the start of scenario s; R2 holds 0x5A5A in every scenario
ScenarioCpu(s) ==
    [LoadProgram(CpuNew, s.program, s.start_addr) EXCEPT
        !.registers = [@ EXCEPT ![1] = s.r1, ![2] = \h5A5A],
        !.sp = s.sp,
        !.flags = s.flags]

\* what stands for the last result at the start of a scenario
ScenarioSet(s) ==
    [op |-> "setup", val |-> "Ok", err |-> NoError, fetch |-> {},
     ins |-> NoInstruction,
     args |-> [program |-> s.program, start_addr |-> s.start_addr]]

CpuIs(c) ==
    /\ registers = c.registers
    /\ pc = c.pc
    /\ sp = c.sp
    /\ flags = c.flags
    /\ memory = c.memory
    /\ halted = c.halted
    /\ program_start = c.program_start
    /\ program_end = c.program_end

InitTrace ==
    /\ \E s \in Scenarios : CpuIs(ScenarioCpu(s)) /\ ret = ScenarioSet(s)
    /\ panicked = FALSE
    /\ loads = 1
    /\ run = RunIdle
    /\ codec = CodecIdle
    /\ mcall = MemoryIdle
    /\ history = << >>

\* at most this many step() calls in a scenario
MaxSteps == 3

\* the step() call that returned r
StepTakes(r) ==
    /\ CpuBecomes(r.cpu)
    /\ ret' = [op |-> "step", val |-> r.val, err |-> r.err, fetch |-> r.fetch,
               ins |-> r.ins, args |-> NoArgs]

\* a call of cpu.step() in a scenario
TracedStep ==
    /\ Len(history) < MaxSteps
    /\ StepTakes(Step(Cpu))
    /\ history' = Append(history, [cpu |-> Cpu, ret |-> ret])
    /\ UNCHANGED << panicked, loads, run, codec, mcall >>

NextTrace == TracedStep

SpecTrace == InitTrace /\ [][NextTrace]_vars


(***************************************************************************)
(* C1                                                                      *)
(***************************************************************************)
\* the opcode nibble of a 16-bit value
Nibble(w) == w \div 4096

\* a value with no bit outside the fields of its layout: an opcode nibble other
\* than 0xE, bit 8 clear in an I-type value, bits 0-1 clear in an E-type value
Canonical(w) ==
    /\ Nibble(w) # 14
    /\ Nibble(w) \in 2..8 => (w \div 256) % 2 = 0
    /\ Nibble(w) = 15 => w % 4 = 0

\* C1 as stated: for every 16-bit value w, Word::new(w).to_bits() == w
C1_EncodeDecodeEveryValue ==
    codec.pc = "bits_done" => codec.bits = codec.bits0

\* C1 amended: for every 16-bit value w that has no bit outside the fields of
\* its layout (opcode nibble other than 0xE, bit 8 clear in an I-type value,
\* bits 0-1 clear in an E-type value), Word::new(w).to_bits() == w
C1_EncodeDecodeCanonical ==
    (codec.pc = "bits_done" /\ Canonical(codec.bits0)) => codec.bits = codec.bits0

\* a canonical I-type value with a non-zero register and immediate went
\* through Word::new and to_bits
C1_Witness ==
    /\ codec.pc = "bits_done"
    /\ codec.bits0 = \h6AFF
    /\ codec.word = IType(6, 5, \hFF)

(***************************************************************************)
(* C2                                                                      *)
(***************************************************************************)
\* C2: for every Word whose fields are in range for its layout,
\* Word::new(word.to_bits()) == word
C2_DecodeEncodeInRange ==
    codec.pc = "word_done" => codec.word = codec.word0

\* an E-type word with all fields non-zero went through to_bits and Word::new
C2_Witness ==
    /\ codec.pc = "word_done"
    /\ codec.word0 = EType(15, 6, 7)
    /\ codec.bits = \hFFDC

(***************************************************************************)
(* Claims about the engine, checked under Spec                             *)
(***************************************************************************)
\* the transition is a call of step()
IsStep == ret'.op = "step"

\* the transition is a call of load_program()
IsLoad == ret'.op = "load_program" /\ loads' = loads + 1

\* no field of the CPU changes
CpuUnchanged ==
    UNCHANGED << registers, pc, sp, flags, memory, halted, program_start, program_end >>

\* C3: R0 is a constant zero in every reachable state: reading R0 yields 0 and
\* slot 0 of the register array is 0
C3_R0AlwaysZero ==
    /\ registers[0] = 0
    /\ GetRegister(Cpu, "R0") = 0

\* the program of instructions that name R0 as their destination has run to
\* its HALT, the last of them a POP of the non-zero value pushed from R1
C3_Witness ==
    /\ halted
    /\ ret.op = "step"
    /\ ret.ins = [op |-> "Halt"]
    /\ program_end - program_start = Len(R0Program)
    /\ Decode(WordNew(ReadWord(memory, pc - 4).val)).ins = [op |-> "Pop", rd |-> "R0"]
    /\ ReadWord(memory, \hFFFC).val = \h7F
    /\ sp = \hFFFE

\* C4: step() on a halted engine returns Ok(false) and changes nothing
C4_HaltedStepNoProgress ==
    [][(halted /\ IsStep) =>
          (ret'.val = "Ok(false)" /\ ret'.err = NoError /\ CpuUnchanged)]_vars

\* step() has returned Ok(false) on the engine that ran the demo program to
\* its HALT
C4_Witness ==
    /\ halted
    /\ ret.op = "step"
    /\ ret.val = "Ok(false)"
    /\ registers[3] = 8

\* C5: halted only moves forward: once set, it stays set across every later
\* step() call
C5_HaltedStaysSet ==
    [][(halted /\ IsStep) => halted']_vars

\* a step() call has been made after the HALT of a program that left the
\* stack and the flags changed
C5_Witness ==
    /\ halted
    /\ ret.op = "step"
    /\ ret.val = "Ok(false)"
    /\ sp = \hFFFC
    /\ flags.zero

\* C6: load_program resets the halt state: after load_program, halted is false
C6_LoadResetsHalted ==
    (ret.op = "load_program" /\ ret.val = "Ok") => ~halted

\* the last load_program call was given a program that fits in memory
LoadFits ==
    /\ ret.op = "load_program"
    /\ ret.args.start_addr + Len(ret.args.program) <= MEMORY_SIZE

\* C7: for every start_addr and bytes with start_addr + len(bytes) <= 0x10000,
\* load_program succeeds and leaves program_start = start_addr,
\* program_end = start_addr + len(bytes), pc = start_addr, sp = 0xFFFE and
\* memory[start_addr + i] = bytes[i]
C7_LoadSetsBoundaries ==
    LoadFits =>
        /\ ret.val = "Ok"
        /\ program_start = ret.args.start_addr
        /\ program_end = ret.args.start_addr + Len(ret.args.program)
        /\ pc = ret.args.start_addr
        /\ sp = \hFFFE
        /\ \A i \in 1..Len(ret.args.program) :
              ReadByte(memory, ret.args.start_addr + (i - 1)) = ret.args.program[i]

\* C8: load_program changes no memory byte outside
\* [start_addr, start_addr + len(bytes)) and does not change the general
\* registers or the flags
C8_LoadFrame ==
    [][IsLoad =>
          /\ registers' = registers
          /\ flags' = flags
          /\ \A a \in (DOMAIN memory) \cup (DOMAIN memory') :
                (a < ret'.args.start_addr
                   \/ a >= ret'.args.start_addr + Len(ret'.args.program))
                => ReadByte(memory', a) = ReadByte(memory, a)]_vars

\* min(pc + 2, 0xFFFF)
InstructionEnd == IF pc + 2 < 65535 THEN pc + 2 ELSE 65535

\* pc < program_start or min(pc + 2, 0xFFFF) > program_end
OutsideProgram == pc < program_start \/ InstructionEnd > program_end

\* C9: with halted = false, step() fails with ProgramBoundsViolation(pc,
\* instruction_end, program_start, program_end) iff pc < program_start or
\* min(pc + 2, 0xFFFF) > program_end; then nothing is fetched and nothing changes
C9_BoundsViolationIff ==
    [][(~halted /\ IsStep) =>
          /\ (ret'.err.kind = "ProgramBoundsViolation") <=> OutsideProgram
          /\ OutsideProgram =>
                /\ ret'.val = "Err"
                /\ ret'.err = [kind |-> "ProgramBoundsViolation", pc |-> pc,
                               iend |-> InstructionEnd, low |-> program_start,
                               high |-> program_end]
                /\ ret'.fetch = {}
                /\ CpuUnchanged]_vars

\* step() has failed with a violation of the lower bound: a jump has taken pc
\* below program_start
C9_Witness ==
    /\ ret.op = "step"
    /\ ret.err.kind = "ProgramBoundsViolation"
    /\ ret.err.pc < ret.err.low
    /\ ret.err.iend <= ret.err.high

\* C10: whenever step() reads an instruction word, both bytes it reads lie
\* inside [program_start, program_end)
C10_FetchInsideProgram ==
    \A a \in ret.fetch : program_start <= a /\ a < program_end

(***************************************************************************)
(* C11                                                                     *)
(***************************************************************************)
\* the 16-bit value is the encoding of a defined instruction: an R-type
\* (opcode, funct) pair of the table, any I-type or J-type opcode, an E-type
\* subcode 0x0, 0xE or 0xF, or a special-register move with a selector in 0..2
DefinedEncoding(bits) ==
    LET n == Nibble(bits)
    IN  CASE n = 0 -> TRUE
          [] n = 1 -> bits % 8 \in 0..5
          [] n \in 2..13 -> TRUE
          [] n = 14 -> FALSE
          [] n = 15 ->
               LET sub == (bits \div 256) % 16
                   rs  == (bits \div 32) % 8
                   rt  == (bits \div 4) % 8
               IN  \/ sub \in {0, 14, 15}
                   \/ sub = 1 /\ rt \in 0..2
                   \/ sub = 2 /\ rs \in 0..2

\* the step() call of this transition gets past the halted check, the
\* boundary check and the fetch
Fetches == ~halted /\ ~OutsideProgram /\ ReadWord(memory, pc).ok

\* the 16-bit value that the step() call of this transition fetches
Fetched == ReadWord(memory, pc).val

\* C11: every fetched 16-bit value that is not the encoding of a defined
\* instruction makes step() fail with InvalidInstruction carrying the fetched
\* word and the decode error, and no instruction is executed for it
C11_UndefinedWordFails ==
    [][(IsStep /\ Fetches /\ ~DefinedEncoding(Fetched)) =>
          /\ ret'.val = "Err"
          /\ ret'.err = InvalidInstruction(WordNew(Fetched),
                                           Decode(WordNew(Fetched)).err)
          /\ ret'.ins = NoInstruction]_vars

(***************************************************************************)
(* C12                                                                     *)
(***************************************************************************)
\* C12: run() calls step() repeatedly and stops at the first call that returns
\* no progress or an error: each pass of its loop is one step() call; after
\* Ok(true) the loop goes on; after Ok(false) run() returns Ok, in a state
\* where halted is true; after an error run() returns exactly that error; and
\* once it has returned it makes no step() call
C12_RunStopsAtFirstFailure ==
    [][/\ run.active =>
            LET r == Step(Cpu)
            IN  /\ CpuBecomes(r.cpu)
                /\ ret'.op = "run"
                /\ r.val = "Ok(true)" => (run'.active /\ ret'.val = "running")
                /\ r.val = "Ok(false)" =>
                      (~run'.active /\ ret'.val = "Ok" /\ ret'.err = NoError
                         /\ halted')
                /\ r.val = "Err" =>
                      (~run'.active /\ ret'.val = "Err" /\ ret'.err = r.err)
       /\ (~run.active /\ ret'.op = "run") =>
            (CpuUnchanged /\ run'.active /\ ret'.val = "running")]_vars

\* run() has returned the error of a step() that failed after a progressing
\* step: execution ran off the end of a program
C12_Witness ==
    /\ ret.op = "run"
    /\ ~run.active
    /\ ret.val = "Err"
    /\ ret.err.kind = "ProgramBoundsViolation"
    /\ run.progress = 1

(***************************************************************************)
(* C13                                                                     *)
(***************************************************************************)
\* run() was called right after the demo program of main.rs was loaded at
\* 0x10 into a fresh engine
DemoRun ==
    /\ ret.op = "run"
    /\ loads = 1
    /\ run.entry.op = "load_program"
    /\ run.entry.val = "Ok"
    /\ run.entry.args = [program |-> DemoProgram, start_addr |-> \h0010]

\* that run() call has returned
DemoRunReturned == DemoRun /\ ~run.active

\* the outcome of the demo program
DemoOutcome ==
    /\ ret.val = "Ok"
    /\ ret.err = NoError
    /\ run.progress = 6
    /\ registers[3] = 8
    /\ registers[5] = 8
    /\ ReadWord(memory, \h1F).val = 8
    /\ halted

\* C13: after loading the six-word demo program at 0x10 into a fresh engine,
\* run() terminates without error after exactly six progressing steps in a
\* state with R3 == R5 == 8, the memory word at 0x1F == 8 and halted == true
C13_DemoRunOutcome ==
    /\ [](DemoRunReturned => DemoOutcome)
    /\ ((DemoRun /\ run.active) ~> DemoRunReturned)

\* the run() of the demo program has returned, six progressing steps counted
C13_Witness ==
    /\ DemoRunReturned
    /\ run.progress = 6
    /\ registers[1] = 5
    /\ registers[2] = 3

(***************************************************************************)
(* C14                                                                     *)
(***************************************************************************)
\* C14: a fault is terminal for the run: once a step() call has returned an
\* error, the next step() call made without a new load_program fetches and
\* executes nothing
C14_FaultIsTerminal ==
    [][(ret.op = "step" /\ ret.val = "Err" /\ IsStep) =>
          (ret'.fetch = {} /\ ret'.ins = NoInstruction)]_vars

(***************************************************************************)
(* Claims about the Memory, checked under SpecMemory                       *)
(***************************************************************************)
\* C15: read_word(addr) and write_word(addr, v) fail with OutOfBounds(addr) if
\* and only if addr >= 0xFFFF, and a failing write_word leaves every memory
\* byte unchanged
C15_WordBoundIff ==
    mcall.pc \in {"written", "read", "read_back"} =>
        /\ mcall.address >= 65535 =>
              (mcall.err = [kind |-> "OutOfBounds", addr |-> mcall.address]
                 /\ memory = mcall.before)
        /\ mcall.address < 65535 => mcall.err = NoError

\* write_word at the last address, 0xFFFF, has failed on a memory that holds
\* non-zero bytes
C15_Witness ==
    /\ mcall.pc = "written"
    /\ mcall.address = 65535
    /\ mcall.value = \h3412
    /\ mcall.err.kind = "OutOfBounds"
    /\ memory = FilledMemory

\* C16: for every addr < 0xFFFF and every 16-bit v, write_word(addr, v) stores
\* v & 0xFF at addr and v >> 8 at addr + 1, changes no other byte, and a
\* following read_word(addr) returns v
C16_LittleEndianRoundTrip ==
    (mcall.pc \in {"written", "read_back"} /\ mcall.address < 65535) =>
        /\ ReadByte(memory, mcall.address) = mcall.value % 256
        /\ ReadByte(memory, mcall.address + 1) = mcall.value \div 256
        /\ \A x \in (DOMAIN memory) \cup (DOMAIN mcall.before) :
              x \notin {mcall.address, mcall.address + 1}
              => ReadByte(memory, x) = ReadByte(mcall.before, x)
        /\ mcall.pc = "read_back" => mcall.word = mcall.value

\* the word 0x1234 was written at the last word address, 0xFFFE, over
\* non-zero bytes, and read back
C16_Witness ==
    /\ mcall.pc = "read_back"
    /\ mcall.address = 65534
    /\ mcall.value = \h1234
    /\ mcall.before = FilledMemory
    /\ memory[65534] = \h34
    /\ memory[65535] = \h12

\* C17: get_range(start, length) returns an empty result exactly when
\* start + length > 0x10000, and otherwise exactly the length bytes stored at
\* start .. start + length - 1, including ranges that end at the last byte
C17_GetRangeBound ==
    mcall.pc = "ranged" =>
        IF mcall.address + mcall.length > 65536
        THEN mcall.range = << >>
        ELSE /\ Len(mcall.range) = mcall.length
             /\ \A i \in 1..mcall.length :
                   mcall.range[i] = ReadByte(memory, mcall.address + (i - 1))

(***************************************************************************)
(* Claims about the arithmetic and shift instructions, checked under       *)
(* SpecAlu                                                                 *)
(***************************************************************************)
\* the transition is a call of execute() with an instruction of this kind
Executes(kinds) == ret'.op = "execute" /\ ret'.ins.op \in kinds

\* the value of a general register before the transition, and after it
Before(reg) == registers[RegIdx(reg)]

After(reg) == registers'[RegIdx(reg)]

\* a 16-bit value read as a signed 16-bit integer
Signed16(x) == IF x >= 32768 THEN x - 65536 ELSE x

\* the flags are these four values
FlagsAre(f, zero, negative, carry, overflow) ==
    /\ f.zero = zero
    /\ f.negative = negative
    /\ f.carry = carry
    /\ f.overflow = overflow

\* C18: for all 16-bit a and b, Add writes (a + b) mod 2^16 to rd and sets
\* Carry iff a + b >= 2^16, Overflow iff the sum of a and b read as signed
\* 16-bit integers lies outside [-32768, 32767], Zero iff the result is 0 and
\* Negative iff bit 15 of the result is set
C18_AddResultAndFlags ==
    [][Executes({"Add"}) =>
          LET a == Before(ret'.ins.rs)
              b == Before(ret'.ins.rt)
              result == (a + b) % 65536
          IN  /\ ret'.val = "Ok"
              /\ After(ret'.ins.rd) = result
              /\ FlagsAre(flags', result = 0, result >= 32768, a + b >= 65536,
                          Signed16(a) + Signed16(b) \notin (-32768)..32767)]_vars

\* 0x7FFF + 0x0001 has given 0x8000 with Carry=false, Overflow=true,
\* Negative=true, Zero=false
C18_Witness ==
    /\ ret.op = "execute"
    /\ ret.ins = [op |-> "Add", rd |-> "R3", rs |-> "R1", rt |-> "R2"]
    /\ registers[1] = \h7FFF
    /\ registers[2] = 1
    /\ registers[3] = \h8000
    /\ FlagsAre(flags, FALSE, TRUE, FALSE, TRUE)

\* C19: for all 16-bit a and b, Sub writes (a - b) mod 2^16 to rd and sets
\* Carry iff a < b as unsigned values, Overflow iff the difference of a and b
\* read as signed 16-bit integers lies outside [-32768, 32767], Zero iff
\* a == b and Negative iff bit 15 of the result is set
C19_SubResultAndFlags ==
    [][Executes({"Sub"}) =>
          LET a == Before(ret'.ins.rs)
              b == Before(ret'.ins.rt)
              result == (a - b) % 65536
          IN  /\ ret'.val = "Ok"
              /\ After(ret'.ins.rd) = result
              /\ FlagsAre(flags', a = b, result >= 32768, a < b,
                          Signed16(a) - Signed16(b) \notin (-32768)..32767)]_vars

\* 0x0000 - 0x0001 has given 0xFFFF with Carry=true, Overflow=false,
\* Negative=true
C19_Witness ==
    /\ ret.op = "execute"
    /\ ret.ins = [op |-> "Sub", rd |-> "R3", rs |-> "R1", rt |-> "R2"]
    /\ registers[1] = 0
    /\ registers[2] = 1
    /\ registers[3] = \hFFFF
    /\ FlagsAre(flags, FALSE, TRUE, TRUE, FALSE)

\* C20: a ShiftLeft or ShiftRight whose amount (the value of rt masked to its
\* low 4 bits) is 0 copies the value of rs to rd and leaves all four flags
\* exactly as they were before the instruction
C20_ShiftByZeroKeepsFlags ==
    [][(Executes({"Sll", "Shr"}) /\ Before(ret'.ins.rt) % 16 = 0) =>
          /\ ret'.val = "Ok"
          /\ After(ret'.ins.rd) = Before(ret'.ins.rs)
          /\ flags' = flags]_vars

\* a shift right by 0x0010, whose low 4 bits are 0, has copied 0x8001 to rd
\* with all four flags still set
C20_Witness ==
    /\ ret.op = "execute"
    /\ ret.ins = [op |-> "Shr", rd |-> "R3", rs |-> "R1", rt |-> "R2"]
    /\ registers[1] = \h8001
    /\ registers[2] = \h0010
    /\ registers[3] = \h8001
    /\ FlagsAre(flags, TRUE, TRUE, TRUE, TRUE)

(***************************************************************************)
(* Claims about the stack, the jumps and failing steps, over SpecTrace     *)
(***************************************************************************)
\* the CPU that the last call found, what the call before the last returned,
\* and the CPU that the call before the last found
CpuBeforeLast == history[Len(history)].cpu

Previous == history[Len(history)].ret

CpuBeforePrevious == history[Len(history) - 1].cpu

\* the last two calls were steps that executed Push, from a stack pointer of
\* at least 2, and then Pop
PushThenPop ==
    /\ Len(history) >= 2
    /\ Previous.ins.op = "Push"
    /\ CpuBeforePrevious.sp >= 2
    /\ ret.ins.op = "Pop"

\* C21: for every sp >= 2 (the empty stack sp = 0xFFFE among them) and every
\* value v of the source register, Push then Pop puts v in the destination
\* register and restores sp to its value before the Push; R0, which no
\* instruction writes, takes no value
C21_PushPopRoundTrip ==
    PushThenPop =>
        /\ Previous.val = "Ok(true)"
        /\ ret.val = "Ok(true)"
        /\ sp = CpuBeforePrevious.sp
        /\ ret.ins.rd # "R0" =>
              registers[RegIdx(ret.ins.rd)]
                  = GetRegister(CpuBeforePrevious, Previous.ins.rs)

\* on the empty stack (sp = 0xFFFE) Push R1 then Pop R2 has brought 0x1234 to
\* R2 and sp back to 0xFFFE
C21_Witness ==
    /\ PushThenPop
    /\ CpuBeforePrevious.sp = \hFFFE
    /\ Previous.ins.rs = "R1"
    /\ ret.ins.rd = "R2"
    /\ CpuBeforePrevious.registers[1] = \h1234
    /\ registers[2] = \h1234
    /\ sp = \hFFFE

\* the transition is a step() call that handed an instruction of one of these
\* kinds to execute
StepExecutes(kinds) == ret'.op = "step" /\ ret'.ins.op \in kinds

\* the step() call of the transition left sp, the memory and the general
\* registers as they were
StackAndRegistersKept ==
    /\ sp' = sp
    /\ memory' = memory
    /\ registers' = registers

\* C22: Push fails, with StackOverflow, if and only if sp < 2, and Pop fails,
\* with StackOverflow, if and only if sp > 0xFFFE; in both failure cases sp,
\* the memory and the registers are unchanged
C22_StackOverflowIff ==
    [][/\ StepExecutes({"Push"}) =>
             /\ ret'.val = "Err" <=> sp < 2
             /\ ret'.val = "Err" => ret'.err = StackOverflow /\ StackAndRegistersKept
       /\ StepExecutes({"Pop"}) =>
             /\ ret'.val = "Err" <=> sp > \hFFFE
             /\ ret'.val = "Err" => ret'.err = StackOverflow /\ StackAndRegistersKept]_vars

\* a Push from sp = 1 has failed with StackOverflow and left sp, the memory
\* and the registers as they were
C22_Witness ==
    /\ Len(history) >= 1
    /\ ret.op = "step"
    /\ ret.ins.op = "Push"
    /\ ret.err = StackOverflow
    /\ CpuBeforeLast.sp = 1
    /\ sp = 1
    /\ memory = CpuBeforeLast.memory
    /\ registers = CpuBeforeLast.registers

\* the raw 12-bit value v read as a two's-complement number
SignedDelta(v) == IF v < 2048 THEN v ELSE v - 4096

\* the GreaterThan condition on the flags f
GreaterThanHolds(f) == ~f.zero /\ (f.negative = f.overflow)

\* the jump i, met with the flags f and the stack pointer s, is to be taken
JumpCondition(i, f, s) ==
    CASE i.jump_type = "Unconditional" -> TRUE
      [] i.jump_type = "Zero"          -> f.zero
      [] i.jump_type = "NotZero"       -> ~f.zero
      [] i.jump_type = "GreaterThan"   -> GreaterThanHolds(f)
      [] i.jump_type = "Call"          -> s >= 2

\* C23: the 12-bit jump offset is sign-extended as two's complement (for every
\* raw v in 0..0xFFF the delta is v when v < 0x800 and v - 4096 otherwise), and
\* a taken jump sets pc to (address of the jump + 2 + delta) mod 2^16
C23_JumpOffsetSignExtended ==
    [][(StepExecutes({"Jump"}) /\ JumpCondition(ret'.ins, flags, sp)) =>
          /\ Convert12BitToSigned(ret'.ins.offset) = SignedDelta(ret'.ins.offset)
          /\ ret'.val = "Ok(true)"
          /\ pc' = (pc + 2 + SignedDelta(ret'.ins.offset)) % 65536]_vars

\* the jump at 0x0010 with raw offset 0x800 (-2048) has been taken to 0xF812,
\* below address 0 and round the end of the memory
C23_Witness ==
    /\ Len(history) >= 1
    /\ ret.op = "step"
    /\ ret.ins = [op |-> "Jump", jump_type |-> "Unconditional", offset |-> \h800]
    /\ CpuBeforeLast.pc = \h0010
    /\ pc = \hF812

\* the step() call of the transition fetched a word, and the word has these
\* two leading nibbles
StepFetches(opcode, subcode) ==
    /\ ret'.op = "step"
    /\ ret'.fetch # {}
    /\ ReadWord(memory, pc).val \div 256 = 16 * opcode + subcode

\* C24: a word with opcode 0xF and subcode 0xE (Sysall) decodes, and executing
\* it makes step() fail with the NotImplemented error, not with an
\* InvalidInstruction error, without changing registers, flags, sp or memory
C24_SysallNotImplemented ==
    [][StepFetches(15, 14) =>
          /\ ret'.ins = [op |-> "Sysall"]
          /\ ret'.val = "Err"
          /\ ret'.err = NotImplementedYet
          /\ StackAndRegistersKept
          /\ flags' = flags]_vars

\* the word 0xFE74 at 0x0010 has been fetched and step() has failed with
\* NotImplementedYet
C24_Witness ==
    /\ Len(history) >= 1
    /\ ret.op = "step"
    /\ ret.fetch = { \h0010, \h0011 }
    /\ ReadWord(CpuBeforeLast.memory, \h0010).val = \hFE74
    /\ ret.ins = [op |-> "Sysall"]
    /\ ret.err = NotImplementedYet
    /\ CpuBeforeLast.sp = sp
    /\ CpuBeforeLast.registers = registers

\* C25: when step() returns any error, the general registers, the flags, sp,
\* the memory and halted have the values they had before that step; only pc
\* can differ, advanced by 2 when the fault came after the fetch (a decode or
\* handler error) and unchanged when it came before it
C25_FailedStepKeepsState ==
    [][(ret'.op = "step" /\ ret'.val = "Err") =>
          /\ StackAndRegistersKept
          /\ flags' = flags
          /\ halted' = halted
          /\ pc' = IF ret'.fetch # {} THEN (pc + 2) % 65536 ELSE pc]_vars

\* a Call met with sp = 1 has failed after its fetch: pc is 2 further, and
\* the rest is as the step found it
C25_Witness ==
    /\ Len(history) >= 1
    /\ ret.op = "step"
    /\ ret.val = "Err"
    /\ ret.ins.op = "Jump"
    /\ ret.ins.jump_type = "Call"
    /\ ret.fetch # {}
    /\ pc = CpuBeforeLast.pc + 2
    /\ sp = 1
    /\ CpuBeforeLast.sp = 1
    /\ memory = CpuBeforeLast.memory
    /\ registers = CpuBeforeLast.registers
    /\ flags = CpuBeforeLast.flags

\* C26: Not {rd, rt} writes to rd the bitwise complement of the value held in
\* register rt (value(rt) XOR 0xFFFF), and sets Zero and Negative from that
\* result, with Carry = false and Overflow = false
C26_NotComplementsRt ==
    [][Executes({"Not"}) =>
          LET result == 65535 - Before(ret'.ins.rt)
          IN  /\ ret'.val = "Ok"
              /\ After(ret'.ins.rd) = result
              /\ FlagsAre(flags', result = 0, result >= 32768, FALSE, FALSE)]_vars

\* C27: OrImmediate {rt, imm} sets rt to the bitwise OR of the value of rt and
\* the zero-extended 8-bit immediate, so that its result differs from that of
\* AndImmediate whenever value(rt) OR imm differs from value(rt) AND imm
C27_OrImmediateIsOr ==
    [][Executes({"OrImmediate"}) =>
          /\ ret'.val = "Ok"
          /\ After(ret'.ins.rt) = BitOr(Before(ret'.ins.rt), ret'.ins.imm)
          /\ BitOr(Before(ret'.ins.rt), ret'.ins.imm)
                # BitAnd(Before(ret'.ins.rt), ret'.ins.imm)
             => After(ret'.ins.rt)
                   # OpAndImmediate(Cpu, ret'.ins.rt, ret'.ins.imm)
                        .cpu.registers[RegIdx(ret'.ins.rt)]]_vars

\* the operands of the Cmp or CmpImmediate that the transition executed: the
\* second is the register rt or the sign-extended immediate
CompareA == IF ret'.ins.op = "Cmp" THEN Before(ret'.ins.rs) ELSE Before(ret'.ins.rt)

CompareB ==
    IF ret'.ins.op = "Cmp" THEN Before(ret'.ins.rt)
    ELSE (ret'.ins.imm + 65536) % 65536

\* C28: for all 16-bit a and b, after Compare of a and b (or CompareImmediate
\* with the sign-extended immediate as b) no general register has changed,
\* Zero is set iff a == b, and the GreaterThan jump condition (Zero clear and
\* Negative == Overflow) holds iff a > b as signed 16-bit integers
C28_CompareOrdersSigned ==
    [][Executes({"Cmp", "CmpImmediate"}) =>
          /\ ret'.val = "Ok"
          /\ registers' = registers
          /\ flags'.zero <=> CompareA = CompareB
          /\ GreaterThanHolds(flags') <=> Signed16(CompareA) > Signed16(CompareB)]_vars

\* Cmp of 0x0001 with 0x8000 (1 > -32768, a difference that overflows) has
\* left Negative = Overflow = true and Zero clear, and the registers as they
\* were
C28_Witness ==
    /\ ret.op = "execute"
    /\ ret.ins = [op |-> "Cmp", rs |-> "R1", rt |-> "R2"]
    /\ registers[1] = 1
    /\ registers[2] = \h8000
    /\ FlagsAre(flags, FALSE, TRUE, TRUE, TRUE)

\* C29: a conditional jump is taken exactly on its condition (Zero: the Zero
\* flag set; NotZero: the Zero flag clear; GreaterThan: Zero clear and
\* Negative == Overflow); when it is not taken the only effect of the step is
\* pc advanced by 2; and, taken or not, a jump of any kind never changes the
\* flags or a general register
C29_ConditionalJumpOnCondition ==
    [][StepExecutes({"Jump"}) =>
          /\ flags' = flags
          /\ registers' = registers
          /\ ret'.ins.jump_type \in {"Zero", "NotZero", "GreaterThan"} =>
                /\ ret'.val = "Ok(true)"
                /\ JumpCondition(ret'.ins, flags, sp) =>
                      pc' = (pc + 2 + SignedDelta(ret'.ins.offset)) % 65536
                /\ ~JumpCondition(ret'.ins, flags, sp) =>
                      /\ pc' = (pc + 2) % 65536
                      /\ UNCHANGED << sp, memory, halted, program_start,
                                      program_end >>]_vars

\* a GreaterThan jump at 0x0010 with offset +2047, met with Zero clear and
\* Negative = Overflow = true, has been taken to 0x0811 with the flags and the
\* registers as they were
C29_Witness ==
    /\ Len(history) >= 1
    /\ ret.op = "step"
    /\ ret.ins = [op |-> "Jump", jump_type |-> "GreaterThan", offset |-> \h7FF]
    /\ CpuBeforeLast.pc = \h0010
    /\ ~CpuBeforeLast.flags.zero
    /\ CpuBeforeLast.flags.negative
    /\ CpuBeforeLast.flags.overflow
    /\ pc = \h0811
    /\ flags = CpuBeforeLast.flags
    /\ registers = CpuBeforeLast.registers

\* the last call was a step that executed a Call
CallStepped ==
    /\ Len(history) >= 1
    /\ ret.op = "step"
    /\ ret.ins.op = "Jump"
    /\ ret.ins.jump_type = "Call"

\* the last two calls were steps that executed a Call, from a stack pointer of
\* at least 2, and then a Return
CallThenReturn ==
    /\ Len(history) >= 2
    /\ Previous.ins.op = "Jump"
    /\ Previous.ins.jump_type = "Call"
    /\ CpuBeforePrevious.sp >= 2
    /\ ret.ins.op = "Return"

\* C30: a Call fetched at address A with sp >= 2 stores A + 2 as a word at
\* sp - 2, sets sp to sp - 2 and pc to A + 2 + delta; a Return executed while
\* sp has that value sets pc to A + 2 and restores sp to its value before the
\* Call; a Call with sp < 2 fails with StackOverflow and does not jump
C30_CallReturnPairUp ==
    /\ (CallStepped /\ CpuBeforeLast.sp >= 2) =>
          /\ ret.val = "Ok(true)"
          /\ ReadWord(memory, CpuBeforeLast.sp - 2).val
                = (CpuBeforeLast.pc + 2) % 65536
          /\ sp = CpuBeforeLast.sp - 2
          /\ pc = (CpuBeforeLast.pc + 2 + SignedDelta(ret.ins.offset)) % 65536
    /\ (CallStepped /\ CpuBeforeLast.sp < 2) =>
          /\ ret.val = "Err"
          /\ ret.err = StackOverflow
          /\ pc = (CpuBeforeLast.pc + 2) % 65536
          /\ sp = CpuBeforeLast.sp
          /\ memory = CpuBeforeLast.memory
    /\ CallThenReturn =>
          /\ ret.val = "Ok(true)"
          /\ pc = (CpuBeforePrevious.pc + 2) % 65536
          /\ sp = CpuBeforePrevious.sp

\* the Call at 0xFFF0 with sp = 0xFFFE has stored 0xFFF2 at 0xFFFC and gone to
\* the Return at 0xFFF4, and the Return has come back to 0xFFF2 with sp at
\* 0xFFFE again
C30_Witness ==
    /\ CallThenReturn
    /\ CpuBeforePrevious.pc = \hFFF0
    /\ CpuBeforePrevious.sp = \hFFFE
    /\ CpuBeforeLast.pc = \hFFF4
    /\ CpuBeforeLast.sp = \hFFFC
    /\ ReadWord(CpuBeforeLast.memory, \hFFFC).val = \hFFF2
    /\ pc = \hFFF2
    /\ sp = \hFFFE

\* C31: a successful Push or Pop never wraps the stack pointer modulo 2^16:
\* after a successful Push sp is the old sp minus 2 and after a successful Pop
\* it is the old sp plus 2, as plain integers within 0..0xFFFF; a move that
\* would leave that range is reported as StackOverflow instead
C31_StackPointerNeverWraps ==
    [][/\ StepExecutes({"Push"}) =>
             IF sp - 2 \in 0..65535
             THEN ret'.val = "Ok(true)" /\ sp' = sp - 2
             ELSE ret'.err = StackOverflow
       /\ StepExecutes({"Pop"}) =>
             IF sp + 2 \in 0..65535
             THEN ret'.val = "Ok(true)" /\ sp' = sp + 2
             ELSE ret'.err = StackOverflow]_vars

\* bit k of the 16-bit value x is set
BitSet(x, k) == (x \div (2 ^ k)) % 2 = 1

\* C32: for a non-zero shift amount n (the value of rt masked to 1..15),
\* ShiftLeft writes (value << n) mod 2^16 to rd with Carry = bit (16 - n) of
\* the original value, ShiftRight writes value >> n (logical) with Carry =
\* bit (n - 1) of the original value, and both set Zero and Negative from the
\* result and Overflow = false
C32_ShiftResultAndCarry ==
    [][(Executes({"Sll", "Shr"}) /\ Before(ret'.ins.rt) % 16 # 0) =>
          LET value  == Before(ret'.ins.rs)
              n      == Before(ret'.ins.rt) % 16
              left   == ret'.ins.op = "Sll"
              result == IF left THEN (value * (2 ^ n)) % 65536
                        ELSE value \div (2 ^ n)
              carry  == IF left THEN BitSet(value, 16 - n)
                        ELSE BitSet(value, n - 1)
          IN  /\ ret'.val = "Ok"
              /\ After(ret'.ins.rd) = result
              /\ FlagsAre(flags', result = 0, result >= 32768, carry, FALSE)]_vars

\* 0x8000 shifted left by 1 has given 0x0000 with Carry = true, Zero = true
C32_Witness ==
    /\ ret.op = "execute"
    /\ ret.ins = [op |-> "Sll", rd |-> "R3", rs |-> "R1", rt |-> "R2"]
    /\ registers[1] = \h8000
    /\ registers[2] = 1
    /\ registers[3] = 0
    /\ FlagsAre(flags, TRUE, FALSE, TRUE, FALSE)

\* the raw 8-bit immediate read as a two's-complement number
SignExt8(raw) == IF raw < 128 THEN raw ELSE raw - 256

\* C33: AddImmediate {rt, imm} adds the 8-bit immediate sign-extended to 16
\* bits: rt becomes (value(rt) + signext8(imm)) mod 2^16, so that the raw
\* immediate 0xFF decrements rt by 1, and Carry, Overflow, Zero and Negative
\* follow the Add rules with the sign-extended value as the second operand
C33_AddImmediateSignExtends ==
    [][Executes({"AddImmediate"}) =>
          LET a      == Before(ret'.ins.rt)
              delta  == ret'.ins.imm
              b      == (delta + 65536) % 65536
              result == (a + b) % 65536
          IN  /\ \A raw \in 0..255 :
                    Decode(ADDI(RegIdx(ret'.ins.rt), raw)).ins.imm = SignExt8(raw)
              /\ ret'.val = "Ok"
              /\ After(ret'.ins.rt) = result
              /\ delta = -1 => After(ret'.ins.rt) = (a + 65535) % 65536
              /\ FlagsAre(flags', result = 0, result >= 32768, a + b >= 65536,
                          Signed16(a) + delta \notin (-32768)..32767)]_vars

\* the AddImmediate decoded from the raw immediate 0xFF has taken R1 from
\* 0x8000 to 0x7FFF, with Carry = true and Overflow = true
C33_Witness ==
    /\ ret.op = "execute"
    /\ ret.ins = Decode(ADDI(1, \hFF)).ins
    /\ ret.ins.imm = -1
    /\ registers[1] = \h7FFF
    /\ FlagsAre(flags, FALSE, FALSE, TRUE, TRUE)

\* the little-endian word that the bytes of m at a and a + 1 make
WordAt(m, a) == ReadByte(m, a) + 256 * ReadByte(m, a + 1)

\* C34: LoadIndirect {rd, rs} and StoreIndirect {rd, rs} use the register
\* number of rs (0..7) as the memory address, not the value stored in rs: the
\* word read or written is at address index(rs), whatever rs contains
C34_IndirectUsesRegisterNumber ==
    [][/\ StepExecutes({"LoadIndirect"}) =>
             /\ ret'.val = "Ok(true)"
             /\ memory' = memory
             /\ ret'.ins.rd # "R0" =>
                   After(ret'.ins.rd) = WordAt(memory, RegIdx(ret'.ins.rs))
       /\ StepExecutes({"StoreIndirect"}) =>
             /\ ret'.val = "Ok(true)"
             /\ registers' = registers
             /\ WordAt(memory', RegIdx(ret'.ins.rs))
                   = GetRegister(Cpu, ret'.ins.rd)
             /\ \A a \in (DOMAIN memory \cup DOMAIN memory')
                            \ { RegIdx(ret'.ins.rs), RegIdx(ret'.ins.rs) + 1 } :
                   ReadByte(memory', a) = ReadByte(memory, a)]_vars

\* with R1 = 0x1234, StoreIndirect {R2, R1} has put 0x5A5A at address 1 and
\* LoadIndirect {R3, R1} has read it back from there; nothing is at 0x1234
C34_Witness ==
    /\ Len(history) >= 2
    /\ Previous.ins = [op |-> "StoreIndirect", rd |-> "R2", rs |-> "R1"]
    /\ ret.ins = [op |-> "LoadIndirect", rd |-> "R3", rs |-> "R1"]
    /\ registers[1] = \h1234
    /\ registers[3] = \h5A5A
    /\ WordAt(memory, 1) = \h5A5A
    /\ WordAt(memory, \h1234) = 0

\* the word that the step() call of the transition fetches, and its E-type
\* fields: subcode (bits 8-11), rs (bits 5-7) and rt (bits 2-4)
FetchedWord == ReadWord(memory, pc).val

FetchedSubcode == (FetchedWord \div 256) % 16

FetchedSubRs == (FetchedWord \div 32) % 8

FetchedSubRt == (FetchedWord \div 4) % 8

\* the names of the special registers by selector value
SpecialNames == << "PC", "SP", "FLAGS" >>

\* the step() call of the transition decoded a move between the general
\* register of number general and the special register of selector v, or
\* failed with InvalidSpecialRegister(v) when v > 2
DecodedMove(kind, general, v) ==
    IF v <= 2
    THEN ret'.ins = [op |-> kind, rt |-> GeneralRegisters[general + 1],
                     spec |-> SpecialNames[v + 1]]
    ELSE /\ ret'.val = "Err"
         /\ ret'.err.kind = "InvalidInstruction"
         /\ ret'.err.err = [kind |-> "InvalidSpecialRegister", id |-> v]

\* C35: E-type decoding: subcode 0x0 gives Nop, 0xE Sysall, 0xF Halt; subcode
\* 0x1 (MoveFromSpecial) takes its selector from the rt field and its general
\* register from the rs field, subcode 0x2 (MoveToSpecial) takes the selector
\* from the rs field and the general register from the rt field; selectors 0,
\* 1, 2 name PC, SP, FLAGS, a selector v > 2 fails with
\* InvalidSpecialRegister(v), and every other subcode s fails with
\* InvalidEType(s)
C35_ETypeDecoding ==
    [][(ret'.op = "step" /\ ret'.fetch # {} /\ FetchedWord \div 4096 = 15) =>
          CASE FetchedSubcode = 0  -> ret'.ins = [op |-> "Nop"]
            [] FetchedSubcode = 14 -> ret'.ins = [op |-> "Sysall"]
            [] FetchedSubcode = 15 -> ret'.ins = [op |-> "Halt"]
            [] FetchedSubcode = 1  ->
                  DecodedMove("MoveFromSpecial", FetchedSubRs, FetchedSubRt)
            [] FetchedSubcode = 2  ->
                  DecodedMove("MoveFromToSpecial", FetchedSubRt, FetchedSubRs)
            [] OTHER ->
                  /\ ret'.val = "Err"
                  /\ ret'.err.kind = "InvalidInstruction"
                  /\ ret'.err.err = [kind |-> "InvalidEType",
                                     subcode |-> FetchedSubcode]]_vars

\* the word 0xF164 (subcode 0x1, rs field 3, rt field 1) has been decoded as
\* the move of SP into R3, and R3 holds the stack pointer
C35_Witness ==
    /\ Len(history) >= 1
    /\ ret.op = "step"
    /\ ReadWord(CpuBeforeLast.memory, CpuBeforeLast.pc).val = \hF164
    /\ ret.ins = [op |-> "MoveFromSpecial", rt |-> "R3", spec |-> "SP"]
    /\ registers[3] = \hFFFE

\* the four flags f packed as bit0 = Zero, bit1 = Carry, bit2 = Negative,
\* bit3 = Overflow
Packed(f) ==
    (IF f.zero THEN 1 ELSE 0) + (IF f.carry THEN 2 ELSE 0)
        + (IF f.negative THEN 4 ELSE 0) + (IF f.overflow THEN 8 ELSE 0)

\* the last call was a step that executed this kind of move on FLAGS
MovedFlags(r, kind) ==
    /\ r.op = "step"
    /\ r.ins.op = kind
    /\ r.ins.spec = "FLAGS"

\* C36: the FLAGS register packs as bit0 = Zero, bit1 = Carry, bit2 =
\* Negative, bit3 = Overflow: reading FLAGS always yields a value below 16,
\* and MoveToSpecial FLAGS with value v followed by MoveFromSpecial FLAGS
\* yields v AND 0xF (bits 4..15 of a written value are ignored)
C36_FlagsPacking ==
    /\ (Len(history) >= 1 /\ MovedFlags(ret, "MoveFromSpecial")
            /\ ret.ins.rt # "R0") =>
          /\ registers[RegIdx(ret.ins.rt)] = Packed(CpuBeforeLast.flags)
          /\ registers[RegIdx(ret.ins.rt)] < 16
    /\ (Len(history) >= 1 /\ MovedFlags(ret, "MoveFromToSpecial")) =>
          Packed(flags) = GetRegister(CpuBeforeLast, ret.ins.rt) % 16
    /\ (Len(history) >= 2 /\ MovedFlags(Previous, "MoveFromToSpecial")
            /\ MovedFlags(ret, "MoveFromSpecial") /\ ret.ins.rt # "R0") =>
          registers[RegIdx(ret.ins.rt)]
              = GetRegister(CpuBeforePrevious, Previous.ins.rt) % 16

\* 0x8005 moved from R1 to FLAGS and FLAGS moved to R3 has left 5 in R3, with
\* Zero and Negative set and Carry and Overflow clear
C36_Witness ==
    /\ Len(history) >= 2
    /\ MovedFlags(Previous, "MoveFromToSpecial")
    /\ MovedFlags(ret, "MoveFromSpecial")
    /\ CpuBeforePrevious.registers[1] = \h8005
    /\ ret.ins.rt = "R3"
    /\ registers[3] = 5
    /\ FlagsAre(flags, TRUE, TRUE, FALSE, FALSE)

\* the instructions that are to leave the flags alone, apart from the moves to
\* PC and SP, and those that may change them, apart from the move to FLAGS
FlagKeepers ==
    { "Load", "Store", "LoadIndirect", "StoreIndirect", "LoadUperImmediate",
      "Push", "Pop", "Return", "Jump", "MoveFromSpecial", "Nop", "Halt" }

FlagSetters ==
    { "Add", "Sub", "And", "Or", "Xor", "Not", "Sll", "Shr", "Cmp",
      "AddImmediate", "AndImmediate", "OrImmediate", "CmpImmediate" }

\* C37: the flags change only through arithmetic, logical, non-zero-amount
\* shift and compare instructions or an explicit MoveToSpecial to FLAGS: Load,
\* Store, LoadIndirect, StoreIndirect, LoadUpperImmediate, Push, Pop, Return,
\* every Jump kind, MoveFromSpecial, MoveToSpecial to PC or SP, Nop and Halt
\* leave all four flags unchanged
C37_FlagsFrame ==
    [][ret'.op = "step" =>
          /\ ret'.ins.op \in FlagKeepers => flags' = flags
          /\ (ret'.ins.op = "MoveFromToSpecial" /\ ret'.ins.spec \in {"PC", "SP"})
                => flags' = flags
          /\ flags' # flags =>
                \/ ret'.ins.op \in FlagSetters \ {"Sll", "Shr"}
                \/ /\ ret'.ins.op \in {"Sll", "Shr"}
                   /\ Before(ret'.ins.rt) % 16 # 0
                \/ /\ ret'.ins.op = "MoveFromToSpecial"
                   /\ ret'.ins.spec = "FLAGS"]_vars

\* LoadUpperImmediate has put 0x8000 in R4, a negative value, and all four
\* flags are still set as they were
C37_Witness ==
    /\ Len(history) >= 1
    /\ ret.op = "step"
    /\ ret.ins = [op |-> "LoadUperImmediate", rt |-> "R4", imm |-> \h80]
    /\ registers[4] = \h8000
    /\ FlagsAre(CpuBeforeLast.flags, TRUE, TRUE, TRUE, TRUE)
    /\ FlagsAre(flags, TRUE, TRUE, TRUE, TRUE)

\* C38: in every reachable state, a MemoryOutOfBounds error from step() can
\* come only from the instruction fetch, at pc = 0xFFFF: no Load, Store,
\* LoadIndirect, StoreIndirect, Push, Pop, Call or Return ever fails with
\* MemoryOutOfBounds, their addresses being at most 0xFFFE
C38_OutOfBoundsOnlyAtFetch ==
    [][(ret'.op = "step" /\ ret'.err.kind = "MemoryOutOfBounds") =>
          /\ pc = 65535
          /\ ret'.err.addr = 65535
          /\ ret'.fetch = {}
          /\ ret'.ins = NoInstruction]_vars

\* with an empty program at 0xFFFF, step() has passed the boundary check and
\* failed on the fetch of the word at 0xFFFF
C38_Witness ==
    /\ Len(history) >= 1
    /\ ret.op = "step"
    /\ ret.err = MemoryOutOfBounds([addr |-> \hFFFF])
    /\ ret.ins = NoInstruction
    /\ CpuBeforeLast.pc = \hFFFF
    /\ CpuBeforeLast.program_start = \hFFFF
    /\ CpuBeforeLast.program_end = \hFFFF
    /\ pc = \hFFFF

====
